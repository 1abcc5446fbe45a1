----------------------------- MODULE WalkerProofs -----------------------------
(***************************************************************************)
(* The walkers follow the grammar: for texts of every length, and as many  *)
(* parentheses in each other, the masker writes a placeholder for each     *)
(* expression sqldef rejects and copies the rest, and the quoter quotes in *)
(* what it writes each identifier sqldef rejects, and nothing else.        *)
(*                                                                         *)
(* A walker sees the words alone.  Masks and Quotes say where it waits at  *)
(* each place of the grammar; for each arc from there, the walker moves to *)
(* where it waits at the place behind.  The invariant of Sqldef, and its   *)
(* theorems, are in SqldefProofs.                                          *)
(***************************************************************************)
EXTENDS Sqldef, FoldProofs, SequenceTheorems

(***************************************************************************)
(* The places of the grammar.                                              *)
(***************************************************************************)
(* The depth that the words of an expression end at.                       *)
Balanced(body, depth) ==
    \E d \in [0 .. Len(body) -> Nat] :
        /\ d[0] = 0 /\ d[Len(body)] = depth
        /\ \A i \in 1 .. Len(body) : d[i] = Q!Deeper(d[i - 1], body[i])

Titles == {"create", "table", "title", "columns", "options", "ended"}
ColumnPlaces == {"column", "type", "label", "labelled", "inline", "default"}
ConstraintPlaces ==
    {"constraint", "name", "named", "primary", "keys", "foreign", "children", "references"}
EntryPlaces == {"rest", "expression", "parent", "parented", "keyed", "set"}
ListPlaces == {"list", "listed", "collation"}
ExpressionPlaces == {"expr", "operand", "function", "cast", "casted"}

Places == Titles \cup ColumnPlaces \cup ConstraintPlaces \cup EntryPlaces
          \cup ListPlaces \cup ExpressionPlaces
Roles == {"word", "name", "key", "keyname", "body", "close", "end"}
Whats == {"keys", "children", "parent", "body", "call", "cast"}

Symbols == [word : Words, role : Roles, at : Places, deep : Seq(Whats),
            column : Nat, body : Seq(Words)]

InList(p) ==
    /\ p.deep \in Seq(Whats) /\ Len(p.deep) = 1 /\ Last(p.deep) \in {"keys", "children", "parent"}
    /\ p.column # 0 => Last(p.deep) = "parent"
    /\ p.at = "collation" => Last(p.deep) = "keys"

InExpression(p) ==
    /\ p.deep # << >> /\ p.deep[1] = "body"
    /\ \A i \in 2 .. Len(p.deep) : p.deep[i] \in {"call", "cast"}
    /\ p.at \in {"cast", "casted"} => Len(p.deep) > 1
    /\ p.deep \in Seq(Whats) /\ p.body \in Seq(Words) /\ Balanced(p.body, Len(p.deep) - 1)

Settled(p) ==
    \/ p.at \in Titles /\ p.column = 0
    \/ p.at \in ColumnPlaces /\ p.column # 0
    \/ p.at \in ConstraintPlaces /\ p.column = 0
    \/ p.at \in EntryPlaces

Placed(p) ==
    /\ p.column \in Nat
    /\ \/ p.deep = << >> /\ Settled(p)
       \/ p.at \in ListPlaces /\ InList(p)
       \/ p.at \in ExpressionPlaces /\ InExpression(p)

(***************************************************************************)
(* Where the masker waits at each place.                                   *)
(***************************************************************************)
BodyPlaces == {"type", "label", "labelled", "inline", "keyed", "set"}

InBody(w) == w.at = "columnBody" /\ w.depth = 0
InEntries(p, w) == p.column = 0 /\ w.at = "columnList" /\ w.depth = 1
AfterBody(p) == IF p.column = 0 THEN "columnList" ELSE "columnBody"
AfterList(p) == IF Last(p.deep) = "children" THEN "children" ELSE "columnBody"

Masks(p, m) ==
    /\ p.at \in {"create", "options", "ended"} => m.at = "statements"
    /\ p.at = "table" => m.at = "CREATE"
    /\ p.at = "title" => m.at = "TABLE"
    /\ p.at = "columns" => m.at = "title"
    /\ p.at \in {"column", "constraint"} => m.at = "entry"
    /\ p.at \in BodyPlaces => InBody(m)
    /\ p.at = "rest" =>
          \/ InBody(m) \/ InEntries(p, m)
          \/ m.at = "maskParenClause" /\ m.depth = 0 /\ m.then = "columnBody"
    /\ p.at \in {"default", "expression"} =>
          m.at = "maskParenClause" /\ m.depth = 0 /\ m.then = AfterBody(p)
    /\ p.at = "parent" => IF p.column = 0 THEN m.at = "REFERENCES" ELSE InBody(m)
    /\ p.at = "parented" =>
          IF p.column = 0 THEN m.at = "parent" /\ m.depth = 0 ELSE InBody(m)
    /\ p.at \in ListPlaces =>
          IF p.column = 0
          THEN m.at = "copyParenList" /\ m.depth = 1 /\ m.then = AfterList(p)
          ELSE m.at = "columnBody" /\ m.depth = 1
    /\ p.at = "name" => m.at = "CONSTRAINT"
    /\ p.at = "named" => m.at = "label"
    /\ p.at = "primary" => m.at = "PRIMARY"
    /\ p.at = "keys" => m.at = "keys"
    /\ p.at = "foreign" => m.at = "FOREIGN"
    /\ p.at = "children" => m.at = "foreignKey"
    /\ p.at = "references" => m.at = "children"
    /\ p.at \in ExpressionPlaces =>
          /\ m.at = "body" /\ m.depth = Len(p.deep) /\ m.body = p.body
          /\ m.then = AfterBody(p)

(* Where the quoter waits.                                                 *)
Quotes(p, q) ==
    /\ p.at \in {"create", "options", "ended"} => q.at = "statements"
    /\ p.at = "table" => q.at = "CREATE"
    /\ p.at = "title" => q.at = "TABLE"
    /\ p.at = "columns" => q.at = "title"
    /\ p.at \in {"column", "constraint"} => q.at = "entry"
    /\ p.at \in BodyPlaces => InBody(q)
    /\ p.at = "default" => InBody(q)
    /\ p.at = "rest" => InBody(q) \/ InEntries(p, q)
    /\ p.at = "expression" =>
          IF p.column = 0 THEN q.at = "CHECK" /\ q.depth = 0 ELSE InBody(q)
    /\ p.at = "parent" => q.at = "REFERENCES"
    /\ p.at = "parented" => q.at = "parent" /\ q.depth = 0
    /\ p.at = "list" => q.at = "ident"
    /\ p.at \in {"listed", "collation"} => q.at = "identList"
    /\ p.at \in ListPlaces => q.depth = 1 /\ q.then = AfterList(p)
    /\ p.at = "name" => q.at = "CONSTRAINT"
    /\ p.at = "named" => q.at = "label"
    /\ p.at = "primary" => q.at = "PRIMARY"
    /\ p.at = "keys" => q.at = "keys"
    /\ p.at = "foreign" => q.at = "FOREIGN"
    /\ p.at = "children" => q.at = "foreignKey"
    /\ p.at = "references" => q.at = "children"
    /\ p.at \in ExpressionPlaces =>
          q.depth = 1 /\ q.at = IF p.column = 0 THEN "opaqueParenClause" ELSE "columnBody"

(* What a walker is, and has written, behind a symbol's word.              *)
MasksTo(x, n, m, word) == Masks(x, n) /\ n.out = Append(m.out, word) /\ n.bodies = m.bodies
QuotesTo(x, n, q) == Quotes(x, n) /\ n.out = Append(q.out, InQuotes(x))

MasksOn(p, x) == \A m : Masks(p, m) => MasksTo(x, K!next(m, x.word), m, x.word)
QuotesOn(p, x) == \A q : Quotes(p, q) => QuotesTo(x, Q!next(q, x.word), q)

Moves(p, x) == x \in Symbols /\ Placed(x) /\ MasksOn(p, x) /\ QuotesOn(p, x)

(* Outside of lists and expressions a place has no parenthesis open.       *)
LEMMA Outside ==
    ASSUME NEW p, Placed(p), p.at \notin ListPlaces, p.at \notin ExpressionPlaces
    PROVE  p.column \in Nat /\ p.deep = << >> /\ Settled(p)
  BY DEF Placed

(* No words leave no parenthesis open.                                     *)
LEMMA EmptyIsBalanced == Balanced(<< >>, 0)
  <1> DEFINE d == [i \in 0 .. 0 |-> 0]
  <1>1. d \in [0 .. 0 -> Nat] /\ d[0] = 0
    OBVIOUS
  <1> HIDE DEF d
  <1>2. QED
    BY <1>1 DEF Balanced

(* Behind the parenthesis that opens an expression, one is open and none   *)
(* of its words has been read.                                             *)
LEMMA Opened ==
    ASSUME NEW x, x.at = "expr", x.deep = <<"body">>, x.body = << >>
    PROVE  x.deep \in Seq(Whats) /\ InExpression(x)
  <1>1. x.deep \in Seq(Whats) /\ Len(x.deep) = 1 /\ x.deep[1] = "body" /\ x.deep # << >>
    BY DEF Whats
  <1>2. Len(x.deep) - 1 = 0
    BY <1>1
  <1>3. Balanced(x.body, Len(x.deep) - 1)
    BY <1>2, EmptyIsBalanced
  <1>4. x.body \in Seq(Words)
    OBVIOUS
  <1>5. \A i \in 2 .. Len(x.deep) : x.deep[i] \in {"call", "cast"}
    BY <1>1
  <1>6. QED
    BY <1>1, <1>3, <1>4, <1>5 DEF InExpression

(* In a list of columns a place has the list's parenthesis open.           *)
LEMMA Within ==
    ASSUME NEW p, Placed(p), p.at \in ListPlaces
    PROVE  p.column \in Nat /\ InList(p)
  BY DEF Placed, Settled, Titles, ColumnPlaces, ConstraintPlaces, EntryPlaces,
         ListPlaces, ExpressionPlaces

(* One parenthesis opened is one deep.                                     *)
LEMMA OneDeep ==
    ASSUME NEW what \in Whats, NEW deep, deep = Append(<< >>, what)
    PROVE  deep \in Seq(Whats) /\ Len(deep) = 1 /\ Last(deep) = what
  BY DEF Last

(* Out of the only parenthesis, none is open.                              *)
LEMMA OutOfOne ==
    ASSUME NEW deep \in Seq(Whats), Len(deep) = 1
    PROVE  Front(deep) = << >>
  BY DEF Front

(* The two walkers count parentheses alike, and no other word changes the  *)
(* count.                                                                  *)
LEMMA Deepens ==
    /\ K!Deeper(0, "(") = 1 /\ K!Deeper(1, ")") = 0
    /\ Q!Deeper(0, "(") = 1 /\ Q!Deeper(1, ")") = 0
    /\ \A depth : \A word : word \notin {"(", ")"} =>
          K!Deeper(depth, word) = depth /\ Q!Deeper(depth, word) = depth
  <1>1. K!Deeper(0, "(") = 1 /\ K!Deeper(1, ")") = 0
    BY DEF K!Deeper
  <1>2. Q!Deeper(0, "(") = 1 /\ Q!Deeper(1, ")") = 0
    BY DEF Q!Deeper
  <1>3. ASSUME NEW depth, NEW word, word \notin {"(", ")"}
        PROVE  K!Deeper(depth, word) = depth /\ Q!Deeper(depth, word) = depth
    BY <1>3 DEF K!Deeper, Q!Deeper
  <1>4. QED
    BY <1>1, <1>2, <1>3

-----------------------------------------------------------------------------
(***************************************************************************)
(* Every place outside of lists and expressions.                           *)
(***************************************************************************)
(* For each place outside lists and expressions a lemma of its own: behind *)
(* any symbol the grammar has there, both walkers wait where they should,  *)
(* and each has written the word as it should (Moves).                     *)
LEMMA CreateMoves ==
    ASSUME NEW p, Placed(p), p.at = "create", NEW arc \in From(p)
    PROVE  Moves(p, arc.is)
  <1> DEFINE x == arc.is
  <1>1. From(p) = {Goes(p, 0, "CREATE", "word", "table")}
    BY DEF From
  <1>2. p.at = "create" /\ p.column \in Nat /\ p.deep = << >> /\ Settled(p)
    BY Outside DEF ListPlaces, ExpressionPlaces
  <1>3. arc = Goes(p, 0, "CREATE", "word", "table")
    BY <1>1
  <1>4. QED
    <2>1. x = Symbol("CREATE", "word", "table", p.deep, p.column, << >>)
      BY <1>3 DEF Goes, Arc
    <2>2. /\ x.word = "CREATE" /\ x.role = "word" /\ x.at = "table"
          /\ x.deep = p.deep /\ x.column = p.column /\ x.body = << >>
      BY <2>1 DEF Symbol
    <2>3. x \in Symbols /\ Placed(x)
      <3>1. Settled(x)
        BY <2>2, <1>2
           DEF Settled, Titles, ColumnPlaces, ConstraintPlaces, EntryPlaces
      <3>2. x \in Symbols
        BY <2>1, <2>2, <1>2 DEF Symbol, Symbols, Places, Titles, Roles, Words
      <3>3. QED
        BY <2>2, <1>2, <3>1, <3>2 DEF Placed
    <2>4. ASSUME NEW m, Masks(p, m)
          PROVE  K!next(m, "CREATE") = K!Past(m, "CREATE", "CREATE")
      BY <2>4, <1>2 DEF Masks, K!next, K!statements
    <2>5. ASSUME NEW m PROVE MasksTo(x, K!Past(m, "CREATE", "CREATE"), m, "CREATE")
      BY <2>2, <1>2
         DEF MasksTo, Masks, InBody, InEntries, K!Past, K!Loop, K!Calling, K!Walker,
             ListPlaces, ExpressionPlaces, BodyPlaces
    <2>6. MasksOn(p, x)
      BY <2>2, <2>4, <2>5 DEF MasksOn
    <2>7. ASSUME NEW q, Quotes(p, q)
          PROVE  Q!next(q, "CREATE") = Q!Past(q, "CREATE", "CREATE")
      BY <2>7, <1>2 DEF Quotes, Q!next, Q!statements
    <2>8. ASSUME NEW q PROVE QuotesTo(x, Q!Past(q, "CREATE", "CREATE"), q)
      BY <2>2, <1>2
         DEF QuotesTo, Quotes, InQuotes, InBody, InEntries, Q!Past, Q!Loop,
             Q!Walker, ListPlaces, ExpressionPlaces, BodyPlaces
    <2>9. QuotesOn(p, x)
      BY <2>2, <2>7, <2>8 DEF QuotesOn
    <2>10. QED
      BY <2>3, <2>6, <2>9 DEF Moves

LEMMA TableMoves ==
    ASSUME NEW p, Placed(p), p.at = "table", NEW arc \in From(p)
    PROVE  Moves(p, arc.is)
  <1> DEFINE x == arc.is
  <1>1. From(p) = {Goes(p, 0, "TABLE", "word", "title")}
    BY DEF From
  <1>2. p.at = "table" /\ p.column \in Nat /\ p.deep = << >> /\ Settled(p)
    BY Outside DEF ListPlaces, ExpressionPlaces
  <1>3. arc = Goes(p, 0, "TABLE", "word", "title")
    BY <1>1
  <1>4. QED
    <2>1. x = Symbol("TABLE", "word", "title", p.deep, p.column, << >>)
      BY <1>3 DEF Goes, Arc
    <2>2. /\ x.word = "TABLE" /\ x.role = "word" /\ x.at = "title"
          /\ x.deep = p.deep /\ x.column = p.column /\ x.body = << >>
      BY <2>1 DEF Symbol
    <2>3. x \in Symbols /\ Placed(x)
      <3>1. Settled(x)
        BY <2>2, <1>2
           DEF Settled, Titles, ColumnPlaces, ConstraintPlaces, EntryPlaces
      <3>2. x \in Symbols
        BY <2>1, <2>2, <1>2 DEF Symbol, Symbols, Places, Titles, Roles, Words
      <3>3. QED
        BY <2>2, <1>2, <3>1, <3>2 DEF Placed
    <2>4. ASSUME NEW m, Masks(p, m)
          PROVE  K!next(m, "TABLE") = K!Past(m, "TABLE", "TABLE")
      BY <2>4, <1>2 DEF Masks, K!next
    <2>5. ASSUME NEW m PROVE MasksTo(x, K!Past(m, "TABLE", "TABLE"), m, "TABLE")
      BY <2>2, <1>2
         DEF MasksTo, Masks, InBody, InEntries, K!Past, K!Loop, K!Calling, K!Walker,
             ListPlaces, ExpressionPlaces, BodyPlaces
    <2>6. MasksOn(p, x)
      BY <2>2, <2>4, <2>5 DEF MasksOn
    <2>7. ASSUME NEW q, Quotes(p, q)
          PROVE  Q!next(q, "TABLE") = Q!Past(q, "TABLE", "TABLE")
      BY <2>7, <1>2 DEF Quotes, Q!next
    <2>8. ASSUME NEW q PROVE QuotesTo(x, Q!Past(q, "TABLE", "TABLE"), q)
      BY <2>2, <1>2
         DEF QuotesTo, Quotes, InQuotes, InBody, InEntries, Q!Past, Q!Loop,
             Q!Walker, ListPlaces, ExpressionPlaces, BodyPlaces
    <2>9. QuotesOn(p, x)
      BY <2>2, <2>7, <2>8 DEF QuotesOn
    <2>10. QED
      BY <2>3, <2>6, <2>9 DEF Moves

LEMMA TitleMoves ==
    ASSUME NEW p, Placed(p), p.at = "title", NEW arc \in From(p)
    PROVE  Moves(p, arc.is)
  <1> DEFINE x == arc.is
  <1>1. From(p) = Id(p, "name", "columns")
    BY DEF From
  <1>2. p.at = "title" /\ p.column \in Nat /\ p.deep = << >> /\ Settled(p)
    BY Outside DEF ListPlaces, ExpressionPlaces
  <1>3. ASSUME NEW word \in {"plain", "name", "KEY"},
               arc = Goes(p, IF word = "plain" THEN 0 ELSE 1, word, "name", "columns")
        PROVE  Moves(p, x)
    <2>1. x = Symbol(word, "name", "columns", p.deep, p.column, << >>)
      BY <1>3 DEF Goes, Arc
    <2>2. /\ x.word = word /\ x.role = "name" /\ x.at = "columns"
          /\ x.deep = p.deep /\ x.column = p.column /\ x.body = << >>
      BY <2>1 DEF Symbol
    <2>3. x \in Symbols /\ Placed(x)
      <3>1. Settled(x)
        BY <2>2, <1>2
           DEF Settled, Titles, ColumnPlaces, ConstraintPlaces, EntryPlaces
      <3>2. x \in Symbols
        <4>1. word \in Words
          BY <1>3 DEF Words
        <4>2. "name" \in Roles
          BY DEF Roles
        <4>3. QED
          BY <2>1, <2>2, <1>2, <4>1, <4>2 DEF Symbol, Symbols, Places, Titles
      <3>3. QED
        BY <2>2, <1>2, <3>1, <3>2 DEF Placed
    <2>4. ASSUME NEW m, Masks(p, m) PROVE K!next(m, word) = K!Past(m, "title", word)
      BY <2>4, <1>3, <1>2 DEF Masks, K!next
    <2>5. ASSUME NEW m PROVE MasksTo(x, K!Past(m, "title", word), m, word)
      BY <2>2, <1>2
         DEF MasksTo, Masks, InBody, InEntries, K!Past, K!Loop, K!Calling, K!Walker,
             ListPlaces, ExpressionPlaces, BodyPlaces
    <2>6. MasksOn(p, x)
      BY <2>2, <2>4, <2>5 DEF MasksOn
    <2>7. ASSUME NEW q, Quotes(p, q)
          PROVE  Q!next(q, word) = Q!Past(q, "title", Q!quoteIdentAt(word))
      BY <2>7, <1>3, <1>2 DEF Quotes, Q!next
    <2>8. ASSUME NEW q
          PROVE  QuotesTo(x, Q!Past(q, "title", Q!quoteIdentAt(word)), q)
      BY <2>2, <1>2, <1>3
         DEF QuotesTo, Quotes, InQuotes, InBody, InEntries, Q!Past, Q!Loop,
             Q!Walker, ListPlaces, ExpressionPlaces, BodyPlaces
    <2>9. QuotesOn(p, x)
      BY <2>2, <2>7, <2>8 DEF QuotesOn
    <2>10. QED
      BY <2>3, <2>6, <2>9 DEF Moves
  <1>4. QED
    BY <1>1, <1>2, <1>3 DEF Id

LEMMA ColumnsMoves ==
    ASSUME NEW p, Placed(p), p.at = "columns", NEW arc \in From(p)
    PROVE  Moves(p, arc.is)
  <1> DEFINE x == arc.is
  <1>1. From(p) = {Ends(0, "(", "column", 1)}
    BY DEF From
  <1>2. p.at = "columns" /\ p.column \in Nat /\ p.deep = << >> /\ Settled(p)
    BY Outside DEF ListPlaces, ExpressionPlaces
  <1>3. arc = Ends(0, "(", "column", 1)
    BY <1>1
  <1>4. QED
    <2>1. x = Symbol("(", "end", "column", << >>, 1, << >>)
      BY <1>3 DEF Ends, Arc
    <2>2. /\ x.word = "(" /\ x.role = "end" /\ x.at = "column"
          /\ x.deep = << >> /\ x.column = 1 /\ x.body = << >>
      BY <2>1 DEF Symbol
    <2>3. x \in Symbols /\ Placed(x)
      <3>1. Settled(x)
        BY <2>2, <1>2
           DEF Settled, Titles, ColumnPlaces, ConstraintPlaces, EntryPlaces
      <3>2. x \in Symbols
        BY <2>1, <2>2, <1>2 DEF Symbol, Symbols, Places, ColumnPlaces, Roles, Words
      <3>3. QED
        BY <2>2, <1>2, <3>1, <3>2 DEF Placed
    <2>4. ASSUME NEW m, Masks(p, m)
          PROVE  K!next(m, "(") = K!Loop(m, "entry", 1, "(")
      BY <2>4, <1>2 DEF Masks, K!next
    <2>5. ASSUME NEW m PROVE MasksTo(x, K!Loop(m, "entry", 1, "("), m, "(")
      BY <2>2, <1>2
         DEF MasksTo, Masks, InBody, InEntries, K!Loop, K!Calling, K!Walker,
             ListPlaces, ExpressionPlaces, BodyPlaces
    <2>6. MasksOn(p, x)
      BY <2>2, <2>4, <2>5 DEF MasksOn
    <2>7. ASSUME NEW q, Quotes(p, q)
          PROVE  Q!next(q, "(") = Q!Loop(q, "entry", 1, "(")
      BY <2>7, <1>2 DEF Quotes, Q!next
    <2>8. ASSUME NEW q PROVE QuotesTo(x, Q!Loop(q, "entry", 1, "("), q)
      BY <2>2, <1>2
         DEF QuotesTo, Quotes, InQuotes, InBody, InEntries, Q!Loop, Q!Walker,
             ListPlaces, ExpressionPlaces, BodyPlaces
    <2>9. QuotesOn(p, x)
      BY <2>2, <2>7, <2>8 DEF QuotesOn
    <2>10. QED
      BY <2>3, <2>6, <2>9 DEF Moves

LEMMA ColumnMoves ==
    ASSUME NEW p, Placed(p), p.at = "column", NEW arc \in From(p)
    PROVE  Moves(p, arc.is)
  <1> DEFINE x == arc.is
  <1>1. From(p) = Id(p, "name", "type")
    BY DEF From
  <1>2. p.at = "column" /\ p.column \in Nat /\ p.deep = << >> /\ Settled(p)
    BY Outside DEF ListPlaces, ExpressionPlaces
  <1>3. ASSUME NEW word \in {"plain", "name", "KEY"},
               arc = Goes(p, IF word = "plain" THEN 0 ELSE 1, word, "name", "type")
        PROVE  Moves(p, x)
    <2>1. x = Symbol(word, "name", "type", p.deep, p.column, << >>)
      BY <1>3 DEF Goes, Arc
    <2>2. /\ x.word = word /\ x.role = "name" /\ x.at = "type"
          /\ x.deep = p.deep /\ x.column = p.column /\ x.body = << >>
      BY <2>1 DEF Symbol
    <2>3. x \in Symbols /\ Placed(x)
      <3>1. Settled(x)
        BY <2>2, <1>2
           DEF Settled, Titles, ColumnPlaces, ConstraintPlaces, EntryPlaces
      <3>2. x \in Symbols
        <4>1. word \in Words
          BY <1>3 DEF Words
        <4>2. "name" \in Roles
          BY DEF Roles
        <4>3. QED
          BY <2>1, <2>2, <1>2, <4>1, <4>2 DEF Symbol, Symbols, Places, ColumnPlaces
      <3>3. QED
        BY <2>2, <1>2, <3>1, <3>2 DEF Placed
    <2>4. ASSUME NEW m, Masks(p, m)
          PROVE  K!next(m, word) = K!Past(m, "columnBody", word)
      BY <2>4, <1>3, <1>2
         DEF Masks, K!next, K!entry, K!isTableConstraintLead, K!Leads
    <2>5. ASSUME NEW m PROVE MasksTo(x, K!Past(m, "columnBody", word), m, word)
      BY <2>2, <1>2
         DEF MasksTo, Masks, InBody, InEntries, K!Past, K!Loop, K!Calling, K!Walker,
             ListPlaces, ExpressionPlaces, BodyPlaces
    <2>6. MasksOn(p, x)
      BY <2>2, <2>4, <2>5 DEF MasksOn
    <2>7. ASSUME NEW q, Quotes(p, q)
          PROVE  Q!next(q, word) = Q!Past(q, "columnBody", Q!quoteIdentAt(word))
      BY <2>7, <1>3, <1>2
         DEF Quotes, Q!next, Q!entry, Q!isTableConstraintLead, Q!Leads
    <2>8. ASSUME NEW q
          PROVE  QuotesTo(x, Q!Past(q, "columnBody", Q!quoteIdentAt(word)), q)
      BY <2>2, <1>2, <1>3
         DEF QuotesTo, Quotes, InQuotes, InBody, InEntries, Q!Past, Q!Loop,
             Q!Walker, ListPlaces, ExpressionPlaces, BodyPlaces
    <2>9. QuotesOn(p, x)
      BY <2>2, <2>7, <2>8 DEF QuotesOn
    <2>10. QED
      BY <2>3, <2>6, <2>9 DEF Moves
  <1>4. QED
    BY <1>1, <1>2, <1>3 DEF Id

LEMMA TypeMoves ==
    ASSUME NEW p, Placed(p), p.at = "type", NEW arc \in From(p)
    PROVE  Moves(p, arc.is)
  <1> DEFINE x == arc.is
  <1>1. From(p) = {Goes(p, 0, "plain", "word", "rest")}
    BY DEF From
  <1>2. p.at = "type" /\ p.column \in Nat /\ p.deep = << >> /\ Settled(p)
    BY Outside DEF ListPlaces, ExpressionPlaces
  <1>3. arc = Goes(p, 0, "plain", "word", "rest")
    BY <1>1
  <1>4. QED
    <2>1. x = Symbol("plain", "word", "rest", p.deep, p.column, << >>)
      BY <1>3 DEF Goes, Arc
    <2>2. /\ x.word = "plain" /\ x.role = "word" /\ x.at = "rest"
          /\ x.deep = p.deep /\ x.column = p.column /\ x.body = << >>
      BY <2>1 DEF Symbol
    <2>3. x \in Symbols /\ Placed(x)
      <3>1. Settled(x)
        BY <2>2, <1>2
           DEF Settled, Titles, ColumnPlaces, ConstraintPlaces, EntryPlaces
      <3>2. x \in Symbols
        BY <2>1, <2>2, <1>2 DEF Symbol, Symbols, Places, EntryPlaces, Roles, Words
      <3>3. QED
        BY <2>2, <1>2, <3>1, <3>2 DEF Placed
    <2>4. ASSUME NEW m, Masks(p, m)
          PROVE  K!next(m, "plain") = K!Loop(m, "columnBody", 0, "plain")
      BY <2>4, <1>2, Deepens DEF Masks, K!next, K!columnBody, InBody, BodyPlaces
    <2>5. ASSUME NEW m
          PROVE  MasksTo(x, K!Loop(m, "columnBody", 0, "plain"), m, "plain")
      BY <2>2, <1>2
         DEF MasksTo, Masks, InBody, InEntries, K!Loop, K!Calling, K!Walker,
             ListPlaces, ExpressionPlaces, BodyPlaces
    <2>6. MasksOn(p, x)
      BY <2>2, <2>4, <2>5 DEF MasksOn
    <2>7. ASSUME NEW q, Quotes(p, q)
          PROVE  Q!next(q, "plain") = Q!Loop(q, "columnBody", 0, "plain")
      BY <2>7, <1>2, Deepens DEF Quotes, Q!next, Q!columnBody, InBody, BodyPlaces
    <2>8. ASSUME NEW q PROVE QuotesTo(x, Q!Loop(q, "columnBody", 0, "plain"), q)
      BY <2>2, <1>2
         DEF QuotesTo, Quotes, InQuotes, InBody, InEntries, Q!Loop, Q!Walker,
             ListPlaces, ExpressionPlaces, BodyPlaces
    <2>9. QuotesOn(p, x)
      BY <2>2, <2>7, <2>8 DEF QuotesOn
    <2>10. QED
      BY <2>3, <2>6, <2>9 DEF Moves

LEMMA LabelMoves ==
    ASSUME NEW p, Placed(p), p.at = "label", NEW arc \in From(p)
    PROVE  Moves(p, arc.is)
  <1> DEFINE x == arc.is
  <1>1. From(p) = {Goes(p, 0, "name", "word", "labelled")}
    BY DEF From
  <1>2. p.at = "label" /\ p.column \in Nat /\ p.column # 0 /\ p.deep = << >> /\ Settled(p)
    BY Outside
       DEF Settled, Titles, ColumnPlaces, ConstraintPlaces, EntryPlaces, ListPlaces,
           ExpressionPlaces
  <1>3. arc = Goes(p, 0, "name", "word", "labelled")
    BY <1>1
  <1>4. QED
    <2>1. x = Symbol("name", "word", "labelled", p.deep, p.column, << >>)
      BY <1>3 DEF Goes, Arc
    <2>2. /\ x.word = "name" /\ x.role = "word" /\ x.at = "labelled"
          /\ x.deep = p.deep /\ x.column = p.column /\ x.body = << >>
      BY <2>1 DEF Symbol
    <2>3. x \in Symbols /\ Placed(x)
      <3>1. Settled(x)
        BY <2>2, <1>2
           DEF Settled, Titles, ColumnPlaces, ConstraintPlaces, EntryPlaces
      <3>2. x \in Symbols
        BY <2>1, <2>2, <1>2 DEF Symbol, Symbols, Places, ColumnPlaces, Roles, Words
      <3>3. QED
        BY <2>2, <1>2, <3>1, <3>2 DEF Placed
    <2>4. ASSUME NEW m, Masks(p, m)
          PROVE  K!next(m, "name") = K!Loop(m, "columnBody", 0, "name")
      BY <2>4, <1>2, Deepens DEF Masks, K!next, K!columnBody, InBody, BodyPlaces
    <2>5. ASSUME NEW m
          PROVE  MasksTo(x, K!Loop(m, "columnBody", 0, "name"), m, "name")
      BY <2>2, <1>2
         DEF MasksTo, Masks, InBody, InEntries, K!Loop, K!Calling, K!Walker,
             ListPlaces, ExpressionPlaces, BodyPlaces
    <2>6. MasksOn(p, x)
      BY <2>2, <2>4, <2>5 DEF MasksOn
    <2>7. ASSUME NEW q, Quotes(p, q)
          PROVE  Q!next(q, "name") = Q!Loop(q, "columnBody", 0, "name")
      BY <2>7, <1>2, Deepens DEF Quotes, Q!next, Q!columnBody, InBody, BodyPlaces
    <2>8. ASSUME NEW q PROVE QuotesTo(x, Q!Loop(q, "columnBody", 0, "name"), q)
      BY <2>2, <1>2
         DEF QuotesTo, Quotes, InQuotes, InBody, InEntries, Q!Loop, Q!Walker,
             ListPlaces, ExpressionPlaces, BodyPlaces
    <2>9. QuotesOn(p, x)
      BY <2>2, <2>7, <2>8 DEF QuotesOn
    <2>10. QED
      BY <2>3, <2>6, <2>9 DEF Moves

LEMMA LabelledMoves ==
    ASSUME NEW p, Placed(p), p.at = "labelled", NEW arc \in From(p)
    PROVE  Moves(p, arc.is)
  <1> DEFINE x == arc.is
  <1>1. From(p) = {Goes(p, 0, "PRIMARY", "word", "inline")}
    BY DEF From
  <1>2. p.at = "labelled" /\ p.column \in Nat /\ p.column # 0 /\ p.deep = << >> /\ Settled(p)
    BY Outside
       DEF Settled, Titles, ColumnPlaces, ConstraintPlaces, EntryPlaces, ListPlaces,
           ExpressionPlaces
  <1>3. arc = Goes(p, 0, "PRIMARY", "word", "inline")
    BY <1>1
  <1>4. QED
    <2>1. x = Symbol("PRIMARY", "word", "inline", p.deep, p.column, << >>)
      BY <1>3 DEF Goes, Arc
    <2>2. /\ x.word = "PRIMARY" /\ x.role = "word" /\ x.at = "inline"
          /\ x.deep = p.deep /\ x.column = p.column /\ x.body = << >>
      BY <2>1 DEF Symbol
    <2>3. x \in Symbols /\ Placed(x)
      <3>1. Settled(x)
        BY <2>2, <1>2
           DEF Settled, Titles, ColumnPlaces, ConstraintPlaces, EntryPlaces
      <3>2. x \in Symbols
        BY <2>1, <2>2, <1>2 DEF Symbol, Symbols, Places, ColumnPlaces, Roles, Words
      <3>3. QED
        BY <2>2, <1>2, <3>1, <3>2 DEF Placed
    <2>4. ASSUME NEW m, Masks(p, m)
          PROVE  K!next(m, "PRIMARY") = K!Loop(m, "columnBody", 0, "PRIMARY")
      BY <2>4, <1>2, Deepens DEF Masks, K!next, K!columnBody, InBody, BodyPlaces
    <2>5. ASSUME NEW m
          PROVE  MasksTo(x, K!Loop(m, "columnBody", 0, "PRIMARY"), m, "PRIMARY")
      BY <2>2, <1>2
         DEF MasksTo, Masks, InBody, InEntries, K!Loop, K!Calling, K!Walker,
             ListPlaces, ExpressionPlaces, BodyPlaces
    <2>6. MasksOn(p, x)
      BY <2>2, <2>4, <2>5 DEF MasksOn
    <2>7. ASSUME NEW q, Quotes(p, q)
          PROVE  Q!next(q, "PRIMARY") = Q!Loop(q, "columnBody", 0, "PRIMARY")
      BY <2>7, <1>2, Deepens DEF Quotes, Q!next, Q!columnBody, InBody, BodyPlaces
    <2>8. ASSUME NEW q PROVE QuotesTo(x, Q!Loop(q, "columnBody", 0, "PRIMARY"), q)
      BY <2>2, <1>2
         DEF QuotesTo, Quotes, InQuotes, InBody, InEntries, Q!Loop, Q!Walker,
             ListPlaces, ExpressionPlaces, BodyPlaces
    <2>9. QuotesOn(p, x)
      BY <2>2, <2>7, <2>8 DEF QuotesOn
    <2>10. QED
      BY <2>3, <2>6, <2>9 DEF Moves

LEMMA InlineMoves ==
    ASSUME NEW p, Placed(p), p.at = "inline", NEW arc \in From(p)
    PROVE  Moves(p, arc.is)
  <1> DEFINE x == arc.is
  <1>1. From(p) = {Goes(p, 0, "KEY", "word", "rest")}
    BY DEF From
  <1>2. p.at = "inline" /\ p.column \in Nat /\ p.column # 0 /\ p.deep = << >> /\ Settled(p)
    BY Outside
       DEF Settled, Titles, ColumnPlaces, ConstraintPlaces, EntryPlaces, ListPlaces,
           ExpressionPlaces
  <1>3. arc = Goes(p, 0, "KEY", "word", "rest")
    BY <1>1
  <1>4. QED
    <2>1. x = Symbol("KEY", "word", "rest", p.deep, p.column, << >>)
      BY <1>3 DEF Goes, Arc
    <2>2. /\ x.word = "KEY" /\ x.role = "word" /\ x.at = "rest"
          /\ x.deep = p.deep /\ x.column = p.column /\ x.body = << >>
      BY <2>1 DEF Symbol
    <2>3. x \in Symbols /\ Placed(x)
      <3>1. Settled(x)
        BY <2>2, <1>2
           DEF Settled, Titles, ColumnPlaces, ConstraintPlaces, EntryPlaces
      <3>2. x \in Symbols
        BY <2>1, <2>2, <1>2 DEF Symbol, Symbols, Places, EntryPlaces, Roles, Words
      <3>3. QED
        BY <2>2, <1>2, <3>1, <3>2 DEF Placed
    <2>4. ASSUME NEW m, Masks(p, m)
          PROVE  K!next(m, "KEY") = K!Loop(m, "columnBody", 0, "KEY")
      BY <2>4, <1>2, Deepens DEF Masks, K!next, K!columnBody, InBody, BodyPlaces
    <2>5. ASSUME NEW m PROVE MasksTo(x, K!Loop(m, "columnBody", 0, "KEY"), m, "KEY")
      BY <2>2, <1>2
         DEF MasksTo, Masks, InBody, InEntries, K!Loop, K!Calling, K!Walker,
             ListPlaces, ExpressionPlaces, BodyPlaces
    <2>6. MasksOn(p, x)
      BY <2>2, <2>4, <2>5 DEF MasksOn
    <2>7. ASSUME NEW q, Quotes(p, q)
          PROVE  Q!next(q, "KEY") = Q!Loop(q, "columnBody", 0, "KEY")
      BY <2>7, <1>2, Deepens DEF Quotes, Q!next, Q!columnBody, InBody, BodyPlaces
    <2>8. ASSUME NEW q PROVE QuotesTo(x, Q!Loop(q, "columnBody", 0, "KEY"), q)
      BY <2>2, <1>2
         DEF QuotesTo, Quotes, InQuotes, InBody, InEntries, Q!Loop, Q!Walker,
             ListPlaces, ExpressionPlaces, BodyPlaces
    <2>9. QuotesOn(p, x)
      BY <2>2, <2>7, <2>8 DEF QuotesOn
    <2>10. QED
      BY <2>3, <2>6, <2>9 DEF Moves

LEMMA DefaultMoves ==
    ASSUME NEW p, Placed(p), p.at = "default", NEW arc \in From(p)
    PROVE  Moves(p, arc.is)
  <1> DEFINE x == arc.is
  <1>1. From(p) = {Goes(p, 0, "name", "word", "rest"), Opens(p, "(", "word", "expr", "body")}
    BY DEF From
  <1>2. p.at = "default" /\ p.column \in Nat /\ p.column # 0 /\ p.deep = << >> /\ Settled(p)
    BY Outside
       DEF Settled, Titles, ColumnPlaces, ConstraintPlaces, EntryPlaces, ListPlaces,
           ExpressionPlaces
  <1>3. CASE arc = Goes(p, 0, "name", "word", "rest")
    <2>1. x = Symbol("name", "word", "rest", p.deep, p.column, << >>)
      BY <1>3 DEF Goes, Arc
    <2>2. /\ x.word = "name" /\ x.role = "word" /\ x.at = "rest"
          /\ x.deep = p.deep /\ x.column = p.column /\ x.body = << >>
      BY <2>1 DEF Symbol
    <2>3. x \in Symbols /\ Placed(x)
      <3>1. Settled(x)
        BY <2>2, <1>2
           DEF Settled, Titles, ColumnPlaces, ConstraintPlaces, EntryPlaces
      <3>2. x \in Symbols
        BY <2>1, <2>2, <1>2 DEF Symbol, Symbols, Places, EntryPlaces, Roles, Words
      <3>3. QED
        BY <2>2, <1>2, <3>1, <3>2 DEF Placed
    <2>4. ASSUME NEW m, Masks(p, m)
          PROVE  K!next(m, "name") = K!Loop(m, "columnBody", 0, "name")
      BY <2>4, <1>2, Deepens
         DEF Masks, K!next, K!maskParenClause, K!columnBody, AfterBody
    <2>5. ASSUME NEW m
          PROVE  MasksTo(x, K!Loop(m, "columnBody", 0, "name"), m, "name")
      BY <2>2, <1>2
         DEF MasksTo, Masks, InBody, InEntries, K!Loop, K!Calling, K!Walker,
             ListPlaces, ExpressionPlaces, BodyPlaces
    <2>6. MasksOn(p, x)
      BY <2>2, <2>4, <2>5 DEF MasksOn
    <2>7. ASSUME NEW q, Quotes(p, q)
          PROVE  Q!next(q, "name") = Q!Loop(q, "columnBody", 0, "name")
      BY <2>7, <1>2, Deepens DEF Quotes, Q!next, Q!columnBody, InBody, BodyPlaces
    <2>8. ASSUME NEW q PROVE QuotesTo(x, Q!Loop(q, "columnBody", 0, "name"), q)
      BY <2>2, <1>2
         DEF QuotesTo, Quotes, InQuotes, InBody, InEntries, Q!Loop, Q!Walker,
             ListPlaces, ExpressionPlaces, BodyPlaces
    <2>9. QuotesOn(p, x)
      BY <2>2, <2>7, <2>8 DEF QuotesOn
    <2>10. QED
      BY <2>3, <2>6, <2>9 DEF Moves
  <1>4. CASE arc = Opens(p, "(", "word", "expr", "body")
    <2>1. x = Symbol("(", "word", "expr", Append(p.deep, "body"), p.column, << >>)
      BY <1>4 DEF Opens, Arc
    <2>2. /\ x.word = "(" /\ x.role = "word" /\ x.at = "expr"
          /\ x.deep = Append(p.deep, "body") /\ x.column = p.column /\ x.body = << >>
      BY <2>1 DEF Symbol
    <2>3. x \in Symbols /\ Placed(x)
      <3>1. x.deep = <<"body">>
        BY <2>2, <1>2
      <3>2. x.deep \in Seq(Whats) /\ InExpression(x)
        BY <2>2, <3>1, Opened
      <3>3. x \in Symbols
        BY <2>1, <2>2, <1>2, <3>2
           DEF Symbol, Symbols, Places, ExpressionPlaces, Roles, Words
      <3>4. QED
        BY <2>2, <1>2, <3>2, <3>3 DEF Placed, ExpressionPlaces
    <2>4. ASSUME NEW m, Masks(p, m)
          PROVE  K!next(m, "(") = K!Calling(m, "body", 1, AfterBody(p), "(")
      BY <2>4, <1>2, Deepens
         DEF Masks, K!next, K!maskParenClause, K!columnBody, AfterBody
    <2>5. ASSUME NEW m
          PROVE  MasksTo(x, K!Calling(m, "body", 1, AfterBody(p), "("), m, "(")
      BY <2>2, <1>2
         DEF MasksTo, Masks, InBody, InEntries, AfterBody, K!Calling, K!Walker,
             ListPlaces, ExpressionPlaces, BodyPlaces
    <2>6. MasksOn(p, x)
      BY <2>2, <2>4, <2>5 DEF MasksOn
    <2>7. ASSUME NEW q, Quotes(p, q)
          PROVE  Q!next(q, "(") = Q!Loop(q, "columnBody", 1, "(")
      BY <2>7, <1>2, Deepens DEF Quotes, Q!next, Q!columnBody, InBody, BodyPlaces
    <2>8. ASSUME NEW q PROVE QuotesTo(x, Q!Loop(q, "columnBody", 1, "("), q)
      BY <2>2, <1>2
         DEF QuotesTo, Quotes, InQuotes, InBody, InEntries, AfterBody, Q!Loop,
             Q!Walker, ListPlaces, ExpressionPlaces, BodyPlaces
    <2>9. QuotesOn(p, x)
      BY <2>2, <2>7, <2>8 DEF QuotesOn
    <2>10. QED
      BY <2>3, <2>6, <2>9 DEF Moves
  <1>5. QED
    BY <1>1, <1>2, <1>3, <1>4

LEMMA ExpressionMoves ==
    ASSUME NEW p, Placed(p), p.at = "expression", NEW arc \in From(p)
    PROVE  Moves(p, arc.is)
  <1> DEFINE x == arc.is
  <1>1. From(p) = {Opens(p, "(", "word", "expr", "body")}
    BY DEF From
  <1>2. p.at = "expression" /\ p.column \in Nat /\ p.deep = << >> /\ Settled(p)
    BY Outside DEF ListPlaces, ExpressionPlaces
  <1>3. arc = Opens(p, "(", "word", "expr", "body")
    BY <1>1
  <1>4. QED
    <2>1. x = Symbol("(", "word", "expr", Append(p.deep, "body"), p.column, << >>)
      BY <1>3 DEF Opens, Arc
    <2>2. /\ x.word = "(" /\ x.role = "word" /\ x.at = "expr"
          /\ x.deep = Append(p.deep, "body") /\ x.column = p.column /\ x.body = << >>
      BY <2>1 DEF Symbol
    <2>3. x \in Symbols /\ Placed(x)
      <3>1. x.deep = <<"body">>
        BY <2>2, <1>2
      <3>2. x.deep \in Seq(Whats) /\ InExpression(x)
        BY <2>2, <3>1, Opened
      <3>3. x \in Symbols
        BY <2>1, <2>2, <1>2, <3>2
           DEF Symbol, Symbols, Places, ExpressionPlaces, Roles, Words
      <3>4. QED
        BY <2>2, <1>2, <3>2, <3>3 DEF Placed, ExpressionPlaces
    <2>4. ASSUME NEW m, Masks(p, m)
          PROVE  K!next(m, "(") = K!Calling(m, "body", 1, AfterBody(p), "(")
      BY <2>4, <1>2 DEF Masks, K!next, K!maskParenClause
    <2>5. ASSUME NEW m
          PROVE  MasksTo(x, K!Calling(m, "body", 1, AfterBody(p), "("), m, "(")
      BY <2>2, <1>2
         DEF MasksTo, Masks, InBody, InEntries, AfterBody, K!Calling, K!Walker,
             ListPlaces, ExpressionPlaces, BodyPlaces
    <2>6. MasksOn(p, x)
      BY <2>2, <2>4, <2>5 DEF MasksOn
    <2>7. ASSUME NEW q, Quotes(p, q)
          PROVE  /\ p.column = 0 => Q!next(q, "(") = Q!Loop(q, "opaqueParenClause", 1, "(")
                 /\ p.column # 0 => Q!next(q, "(") = Q!Loop(q, "columnBody", 1, "(")
      <3>1. CASE p.column = 0
        BY <2>7, <3>1, <1>2, Deepens DEF Quotes, Q!next, Q!opaqueParenClause
      <3>2. CASE p.column # 0
        BY <2>7, <3>2, <1>2, Deepens
           DEF Quotes, Q!next, Q!columnBody, InBody, BodyPlaces
      <3>3. QED
        BY <3>1, <3>2
    <2>8. ASSUME NEW q
          PROVE  /\ p.column = 0 => QuotesTo(x, Q!Loop(q, "opaqueParenClause", 1, "("), q)
                 /\ p.column # 0 => QuotesTo(x, Q!Loop(q, "columnBody", 1, "("), q)
      BY <2>2, <1>2
         DEF QuotesTo, Quotes, InQuotes, InBody, InEntries, AfterBody, Q!Loop,
             Q!Walker, ListPlaces, ExpressionPlaces, BodyPlaces
    <2>9. QuotesOn(p, x)
      BY <2>2, <2>7, <2>8 DEF QuotesOn
    <2>10. QED
      BY <2>3, <2>6, <2>9 DEF Moves

LEMMA ParentMoves ==
    ASSUME NEW p, Placed(p), p.at = "parent", NEW arc \in From(p)
    PROVE  Moves(p, arc.is)
  <1> DEFINE x == arc.is
  <1>1. From(p) = Id(p, KeyName(p), "parented")
    BY DEF From
  <1>2. p.at = "parent" /\ p.column \in Nat /\ p.deep = << >> /\ Settled(p)
    BY Outside DEF ListPlaces, ExpressionPlaces
  <1>3. ASSUME NEW word \in {"plain", "name", "KEY"},
               arc = Goes(p, IF word = "plain" THEN 0 ELSE 1, word, KeyName(p), "parented")
        PROVE  Moves(p, x)
    <2>1. x = Symbol(word, KeyName(p), "parented", p.deep, p.column, << >>)
      BY <1>3 DEF Goes, Arc
    <2>2. /\ x.word = word /\ x.role = KeyName(p) /\ x.at = "parented"
          /\ x.deep = p.deep /\ x.column = p.column /\ x.body = << >>
      BY <2>1 DEF Symbol
    <2>3. x \in Symbols /\ Placed(x)
      <3>1. Settled(x)
        BY <2>2, <1>2
           DEF Settled, Titles, ColumnPlaces, ConstraintPlaces, EntryPlaces
      <3>2. x \in Symbols
        <4>1. word \in Words
          BY <1>3 DEF Words
        <4>2. KeyName(p) \in Roles
          BY DEF Roles, KeyWord, KeyName
        <4>3. QED
          BY <2>1, <2>2, <1>2, <4>1, <4>2 DEF Symbol, Symbols, Places, EntryPlaces
      <3>3. QED
        BY <2>2, <1>2, <3>1, <3>2 DEF Placed
    <2>4. ASSUME NEW m, Masks(p, m)
          PROVE  /\ p.column = 0 => K!next(m, word) = K!Past(m, "parent", word)
                 /\ p.column # 0 => K!next(m, word) = K!Loop(m, "columnBody", 0, word)
      <3>1. CASE p.column = 0
        BY <2>4, <3>1, <1>3, <1>2 DEF Masks, K!next
      <3>2. CASE p.column # 0
        BY <2>4, <3>2, <1>3, <1>2, Deepens
           DEF Masks, K!next, K!columnBody, InBody, BodyPlaces
      <3>3. QED
        BY <3>1, <3>2
    <2>5. ASSUME NEW m
          PROVE  /\ p.column = 0 => MasksTo(x, K!Past(m, "parent", word), m, word)
                 /\ p.column # 0 => MasksTo(x, K!Loop(m, "columnBody", 0, word), m, word)
      BY <2>2, <1>2
         DEF MasksTo, Masks, InBody, InEntries, K!Past, K!Loop, K!Calling, K!Walker,
             ListPlaces, ExpressionPlaces, BodyPlaces
    <2>6. MasksOn(p, x)
      BY <2>2, <2>4, <2>5 DEF MasksOn
    <2>7. ASSUME NEW q, Quotes(p, q)
          PROVE  Q!next(q, word) = Q!Past(q, "parent", Q!quoteIdentAt(word))
      BY <2>7, <1>3, <1>2 DEF Quotes, Q!next
    <2>8. ASSUME NEW q
          PROVE  QuotesTo(x, Q!Past(q, "parent", Q!quoteIdentAt(word)), q)
      BY <2>2, <1>2, <1>3
         DEF QuotesTo, Quotes, InQuotes, KeyWord, KeyName, InBody, InEntries,
             Q!Past, Q!Loop, Q!Walker, ListPlaces, ExpressionPlaces, BodyPlaces
    <2>9. QuotesOn(p, x)
      BY <2>2, <2>7, <2>8 DEF QuotesOn
    <2>10. QED
      BY <2>3, <2>6, <2>9 DEF Moves
  <1>4. QED
    BY <1>1, <1>2, <1>3 DEF Id

LEMMA SetMoves ==
    ASSUME NEW p, Placed(p), p.at = "set", NEW arc \in From(p)
    PROVE  Moves(p, arc.is)
  <1> DEFINE x == arc.is
  <1>1. From(p) = {Goes(p, 0, "DEFAULT", KeyWord(p), "rest")}
    BY DEF From
  <1>2. p.at = "set" /\ p.column \in Nat /\ p.deep = << >> /\ Settled(p)
    BY Outside DEF ListPlaces, ExpressionPlaces
  <1>3. arc = Goes(p, 0, "DEFAULT", KeyWord(p), "rest")
    BY <1>1
  <1>4. QED
    <2>1. x = Symbol("DEFAULT", KeyWord(p), "rest", p.deep, p.column, << >>)
      BY <1>3 DEF Goes, Arc
    <2>2. /\ x.word = "DEFAULT" /\ x.role = KeyWord(p) /\ x.at = "rest"
          /\ x.deep = p.deep /\ x.column = p.column /\ x.body = << >>
      BY <2>1 DEF Symbol
    <2>3. x \in Symbols /\ Placed(x)
      <3>1. Settled(x)
        BY <2>2, <1>2
           DEF Settled, Titles, ColumnPlaces, ConstraintPlaces, EntryPlaces
      <3>2. x \in Symbols
        BY <2>1, <2>2, <1>2
           DEF Symbol, Symbols, Places, EntryPlaces, Roles, Words, KeyWord, KeyName
      <3>3. QED
        BY <2>2, <1>2, <3>1, <3>2 DEF Placed
    <2>4. ASSUME NEW m, Masks(p, m)
          PROVE  K!next(m, "DEFAULT") = K!Calling(m, "maskParenClause", 0, "columnBody", "DEFAULT")
      BY <2>4, <1>2, Deepens DEF Masks, K!next, K!columnBody, InBody, BodyPlaces
    <2>5. ASSUME NEW m
          PROVE  MasksTo(x, K!Calling(m, "maskParenClause", 0, "columnBody", "DEFAULT"), m, "DEFAULT")
      BY <2>2, <1>2
         DEF MasksTo, Masks, InBody, InEntries, K!Calling, K!Walker, ListPlaces,
             ExpressionPlaces, BodyPlaces
    <2>6. MasksOn(p, x)
      BY <2>2, <2>4, <2>5 DEF MasksOn
    <2>7. ASSUME NEW q, Quotes(p, q)
          PROVE  Q!next(q, "DEFAULT") = Q!Loop(q, "columnBody", 0, "DEFAULT")
      BY <2>7, <1>2, Deepens DEF Quotes, Q!next, Q!columnBody, InBody, BodyPlaces
    <2>8. ASSUME NEW q PROVE QuotesTo(x, Q!Loop(q, "columnBody", 0, "DEFAULT"), q)
      BY <2>2, <1>2
         DEF QuotesTo, Quotes, InQuotes, KeyWord, KeyName, InBody, InEntries,
             Q!Loop, Q!Walker, ListPlaces, ExpressionPlaces, BodyPlaces
    <2>9. QuotesOn(p, x)
      BY <2>2, <2>7, <2>8 DEF QuotesOn
    <2>10. QED
      BY <2>3, <2>6, <2>9 DEF Moves

LEMMA ConstraintMoves ==
    ASSUME NEW p, Placed(p), p.at = "constraint", NEW arc \in From(p)
    PROVE  Moves(p, arc.is)
  <1> DEFINE x == arc.is
  <1>1. From(p) = {Goes(p, 1, "CONSTRAINT", "word", "name")} \cup Constraint(p)
    BY DEF From
  <1>2. p.at = "constraint" /\ p.column = 0 /\ p.deep = << >>
    BY Outside
       DEF Settled, Titles, ColumnPlaces, ConstraintPlaces, EntryPlaces, ListPlaces,
           ExpressionPlaces
  <1>3. CASE arc = Goes(p, 1, "CONSTRAINT", "word", "name")
    <2>1. x = Symbol("CONSTRAINT", "word", "name", p.deep, p.column, << >>)
      BY <1>3 DEF Goes, Arc
    <2>2. /\ x.word = "CONSTRAINT" /\ x.role = "word" /\ x.at = "name"
          /\ x.deep = p.deep /\ x.column = p.column /\ x.body = << >>
      BY <2>1 DEF Symbol
    <2>3. x \in Symbols /\ Placed(x)
      <3>1. Settled(x)
        BY <2>2, <1>2
           DEF Settled, Titles, ColumnPlaces, ConstraintPlaces, EntryPlaces
      <3>2. x \in Symbols
        BY <2>1, <2>2, <1>2
           DEF Symbol, Symbols, Places, ConstraintPlaces, Roles, Words
      <3>3. QED
        BY <2>2, <1>2, <3>1, <3>2 DEF Placed
    <2>4. ASSUME NEW m, Masks(p, m)
          PROVE  K!next(m, "CONSTRAINT") = K!Past(m, "CONSTRAINT", "CONSTRAINT")
      BY <2>4, <1>2
         DEF Masks, K!next, K!entry, K!tableConstraint, K!isTableConstraintLead,
             K!Leads
    <2>5. ASSUME NEW m
          PROVE  MasksTo(x, K!Past(m, "CONSTRAINT", "CONSTRAINT"), m, "CONSTRAINT")
      BY <2>2, <1>2
         DEF MasksTo, Masks, InBody, InEntries, K!Past, K!Loop, K!Calling, K!Walker,
             ListPlaces, ExpressionPlaces, BodyPlaces
    <2>6. MasksOn(p, x)
      BY <2>2, <2>4, <2>5 DEF MasksOn
    <2>7. ASSUME NEW q, Quotes(p, q)
          PROVE  Q!next(q, "CONSTRAINT") = Q!Past(q, "CONSTRAINT", "CONSTRAINT")
      BY <2>7, <1>2
         DEF Quotes, Q!next, Q!entry, Q!tableConstraint, Q!isTableConstraintLead,
             Q!Leads
    <2>8. ASSUME NEW q PROVE QuotesTo(x, Q!Past(q, "CONSTRAINT", "CONSTRAINT"), q)
      BY <2>2, <1>2
         DEF QuotesTo, Quotes, InQuotes, InBody, InEntries, Q!Past, Q!Loop,
             Q!Walker, ListPlaces, ExpressionPlaces, BodyPlaces
    <2>9. QuotesOn(p, x)
      BY <2>2, <2>7, <2>8 DEF QuotesOn
    <2>10. QED
      BY <2>3, <2>6, <2>9 DEF Moves
  <1>4. CASE arc = Goes(p, 0, "PRIMARY", "word", "primary")
    <2>1. x = Symbol("PRIMARY", "word", "primary", p.deep, p.column, << >>)
      BY <1>4 DEF Goes, Arc
    <2>2. /\ x.word = "PRIMARY" /\ x.role = "word" /\ x.at = "primary"
          /\ x.deep = p.deep /\ x.column = p.column /\ x.body = << >>
      BY <2>1 DEF Symbol
    <2>3. x \in Symbols /\ Placed(x)
      <3>1. Settled(x)
        BY <2>2, <1>2
           DEF Settled, Titles, ColumnPlaces, ConstraintPlaces, EntryPlaces
      <3>2. x \in Symbols
        BY <2>1, <2>2, <1>2
           DEF Symbol, Symbols, Places, ConstraintPlaces, Roles, Words
      <3>3. QED
        BY <2>2, <1>2, <3>1, <3>2 DEF Placed
    <2>4. ASSUME NEW m, Masks(p, m)
          PROVE  K!next(m, "PRIMARY") = K!Past(m, "PRIMARY", "PRIMARY")
      BY <2>4, <1>2
         DEF Masks, K!next, K!entry, K!tableConstraint, K!isTableConstraintLead,
             K!Leads
    <2>5. ASSUME NEW m
          PROVE  MasksTo(x, K!Past(m, "PRIMARY", "PRIMARY"), m, "PRIMARY")
      BY <2>2, <1>2
         DEF MasksTo, Masks, InBody, InEntries, K!Past, K!Loop, K!Calling, K!Walker,
             ListPlaces, ExpressionPlaces, BodyPlaces
    <2>6. MasksOn(p, x)
      BY <2>2, <2>4, <2>5 DEF MasksOn
    <2>7. ASSUME NEW q, Quotes(p, q)
          PROVE  Q!next(q, "PRIMARY") = Q!Past(q, "PRIMARY", "PRIMARY")
      BY <2>7, <1>2
         DEF Quotes, Q!next, Q!entry, Q!tableConstraint, Q!isTableConstraintLead,
             Q!Leads
    <2>8. ASSUME NEW q PROVE QuotesTo(x, Q!Past(q, "PRIMARY", "PRIMARY"), q)
      BY <2>2, <1>2
         DEF QuotesTo, Quotes, InQuotes, InBody, InEntries, Q!Past, Q!Loop,
             Q!Walker, ListPlaces, ExpressionPlaces, BodyPlaces
    <2>9. QuotesOn(p, x)
      BY <2>2, <2>7, <2>8 DEF QuotesOn
    <2>10. QED
      BY <2>3, <2>6, <2>9 DEF Moves
  <1>5. CASE arc = Goes(p, 0, "UNIQUE", "word", "keys")
    <2>1. x = Symbol("UNIQUE", "word", "keys", p.deep, p.column, << >>)
      BY <1>5 DEF Goes, Arc
    <2>2. /\ x.word = "UNIQUE" /\ x.role = "word" /\ x.at = "keys"
          /\ x.deep = p.deep /\ x.column = p.column /\ x.body = << >>
      BY <2>1 DEF Symbol
    <2>3. x \in Symbols /\ Placed(x)
      <3>1. Settled(x)
        BY <2>2, <1>2
           DEF Settled, Titles, ColumnPlaces, ConstraintPlaces, EntryPlaces
      <3>2. x \in Symbols
        BY <2>1, <2>2, <1>2
           DEF Symbol, Symbols, Places, ConstraintPlaces, Roles, Words
      <3>3. QED
        BY <2>2, <1>2, <3>1, <3>2 DEF Placed
    <2>4. ASSUME NEW m, Masks(p, m)
          PROVE  K!next(m, "UNIQUE") = K!Past(m, "keys", "UNIQUE")
      BY <2>4, <1>2
         DEF Masks, K!next, K!entry, K!tableConstraint, K!isTableConstraintLead,
             K!Leads
    <2>5. ASSUME NEW m PROVE MasksTo(x, K!Past(m, "keys", "UNIQUE"), m, "UNIQUE")
      BY <2>2, <1>2
         DEF MasksTo, Masks, InBody, InEntries, K!Past, K!Loop, K!Calling, K!Walker,
             ListPlaces, ExpressionPlaces, BodyPlaces
    <2>6. MasksOn(p, x)
      BY <2>2, <2>4, <2>5 DEF MasksOn
    <2>7. ASSUME NEW q, Quotes(p, q)
          PROVE  Q!next(q, "UNIQUE") = Q!Past(q, "keys", "UNIQUE")
      BY <2>7, <1>2
         DEF Quotes, Q!next, Q!entry, Q!tableConstraint, Q!isTableConstraintLead,
             Q!Leads
    <2>8. ASSUME NEW q PROVE QuotesTo(x, Q!Past(q, "keys", "UNIQUE"), q)
      BY <2>2, <1>2
         DEF QuotesTo, Quotes, InQuotes, InBody, InEntries, Q!Past, Q!Loop,
             Q!Walker, ListPlaces, ExpressionPlaces, BodyPlaces
    <2>9. QuotesOn(p, x)
      BY <2>2, <2>7, <2>8 DEF QuotesOn
    <2>10. QED
      BY <2>3, <2>6, <2>9 DEF Moves
  <1>6. CASE arc = Goes(p, 0, "CHECK", "word", "expression")
    <2>1. x = Symbol("CHECK", "word", "expression", p.deep, p.column, << >>)
      BY <1>6 DEF Goes, Arc
    <2>2. /\ x.word = "CHECK" /\ x.role = "word" /\ x.at = "expression"
          /\ x.deep = p.deep /\ x.column = p.column /\ x.body = << >>
      BY <2>1 DEF Symbol
    <2>3. x \in Symbols /\ Placed(x)
      <3>1. Settled(x)
        BY <2>2, <1>2
           DEF Settled, Titles, ColumnPlaces, ConstraintPlaces, EntryPlaces
      <3>2. x \in Symbols
        BY <2>1, <2>2, <1>2 DEF Symbol, Symbols, Places, EntryPlaces, Roles, Words
      <3>3. QED
        BY <2>2, <1>2, <3>1, <3>2 DEF Placed
    <2>4. ASSUME NEW m, Masks(p, m)
          PROVE  K!next(m, "CHECK") = K!Calling(m, "maskParenClause", 0, "columnList", "CHECK")
      BY <2>4, <1>2
         DEF Masks, K!next, K!entry, K!tableConstraint, K!isTableConstraintLead,
             K!Leads
    <2>5. ASSUME NEW m
          PROVE  MasksTo(x, K!Calling(m, "maskParenClause", 0, "columnList", "CHECK"), m, "CHECK")
      BY <2>2, <1>2
         DEF MasksTo, Masks, InBody, InEntries, AfterBody, K!Calling, K!Walker,
             ListPlaces, ExpressionPlaces, BodyPlaces
    <2>6. MasksOn(p, x)
      BY <2>2, <2>4, <2>5 DEF MasksOn
    <2>7. ASSUME NEW q, Quotes(p, q)
          PROVE  Q!next(q, "CHECK") = Q!Past(q, "CHECK", "CHECK")
      BY <2>7, <1>2
         DEF Quotes, Q!next, Q!entry, Q!tableConstraint, Q!isTableConstraintLead,
             Q!Leads
    <2>8. ASSUME NEW q PROVE QuotesTo(x, Q!Past(q, "CHECK", "CHECK"), q)
      BY <2>2, <1>2
         DEF QuotesTo, Quotes, InQuotes, InBody, InEntries, AfterBody, Q!Past,
             Q!Loop, Q!Walker, ListPlaces, ExpressionPlaces, BodyPlaces
    <2>9. QuotesOn(p, x)
      BY <2>2, <2>7, <2>8 DEF QuotesOn
    <2>10. QED
      BY <2>3, <2>6, <2>9 DEF Moves
  <1>7. CASE arc = Goes(p, 0, "FOREIGN", "word", "foreign")
    <2>1. x = Symbol("FOREIGN", "word", "foreign", p.deep, p.column, << >>)
      BY <1>7 DEF Goes, Arc
    <2>2. /\ x.word = "FOREIGN" /\ x.role = "word" /\ x.at = "foreign"
          /\ x.deep = p.deep /\ x.column = p.column /\ x.body = << >>
      BY <2>1 DEF Symbol
    <2>3. x \in Symbols /\ Placed(x)
      <3>1. Settled(x)
        BY <2>2, <1>2
           DEF Settled, Titles, ColumnPlaces, ConstraintPlaces, EntryPlaces
      <3>2. x \in Symbols
        BY <2>1, <2>2, <1>2
           DEF Symbol, Symbols, Places, ConstraintPlaces, Roles, Words
      <3>3. QED
        BY <2>2, <1>2, <3>1, <3>2 DEF Placed
    <2>4. ASSUME NEW m, Masks(p, m)
          PROVE  K!next(m, "FOREIGN") = K!Past(m, "FOREIGN", "FOREIGN")
      BY <2>4, <1>2
         DEF Masks, K!next, K!entry, K!tableConstraint, K!isTableConstraintLead,
             K!Leads
    <2>5. ASSUME NEW m
          PROVE  MasksTo(x, K!Past(m, "FOREIGN", "FOREIGN"), m, "FOREIGN")
      BY <2>2, <1>2
         DEF MasksTo, Masks, InBody, InEntries, K!Past, K!Loop, K!Calling, K!Walker,
             ListPlaces, ExpressionPlaces, BodyPlaces
    <2>6. MasksOn(p, x)
      BY <2>2, <2>4, <2>5 DEF MasksOn
    <2>7. ASSUME NEW q, Quotes(p, q)
          PROVE  Q!next(q, "FOREIGN") = Q!Past(q, "FOREIGN", "FOREIGN")
      BY <2>7, <1>2
         DEF Quotes, Q!next, Q!entry, Q!tableConstraint, Q!isTableConstraintLead,
             Q!Leads
    <2>8. ASSUME NEW q PROVE QuotesTo(x, Q!Past(q, "FOREIGN", "FOREIGN"), q)
      BY <2>2, <1>2
         DEF QuotesTo, Quotes, InQuotes, InBody, InEntries, Q!Past, Q!Loop,
             Q!Walker, ListPlaces, ExpressionPlaces, BodyPlaces
    <2>9. QuotesOn(p, x)
      BY <2>2, <2>7, <2>8 DEF QuotesOn
    <2>10. QED
      BY <2>3, <2>6, <2>9 DEF Moves
  <1>8. QED
    BY <1>1, <1>2, <1>3, <1>4, <1>5, <1>6, <1>7 DEF Constraint

LEMMA NameMoves ==
    ASSUME NEW p, Placed(p), p.at = "name", NEW arc \in From(p)
    PROVE  Moves(p, arc.is)
  <1> DEFINE x == arc.is
  <1>1. From(p) = {Goes(p, 0, "KEY", "word", "named")}
    BY DEF From
  <1>2. p.at = "name" /\ p.column = 0 /\ p.deep = << >>
    BY Outside
       DEF Settled, Titles, ColumnPlaces, ConstraintPlaces, EntryPlaces, ListPlaces,
           ExpressionPlaces
  <1>3. arc = Goes(p, 0, "KEY", "word", "named")
    BY <1>1
  <1>4. QED
    <2>1. x = Symbol("KEY", "word", "named", p.deep, p.column, << >>)
      BY <1>3 DEF Goes, Arc
    <2>2. /\ x.word = "KEY" /\ x.role = "word" /\ x.at = "named"
          /\ x.deep = p.deep /\ x.column = p.column /\ x.body = << >>
      BY <2>1 DEF Symbol
    <2>3. x \in Symbols /\ Placed(x)
      <3>1. Settled(x)
        BY <2>2, <1>2
           DEF Settled, Titles, ColumnPlaces, ConstraintPlaces, EntryPlaces
      <3>2. x \in Symbols
        BY <2>1, <2>2, <1>2
           DEF Symbol, Symbols, Places, ConstraintPlaces, Roles, Words
      <3>3. QED
        BY <2>2, <1>2, <3>1, <3>2 DEF Placed
    <2>4. ASSUME NEW m, Masks(p, m)
          PROVE  K!next(m, "KEY") = K!Past(m, "label", "KEY")
      BY <2>4, <1>2 DEF Masks, K!next
    <2>5. ASSUME NEW m PROVE MasksTo(x, K!Past(m, "label", "KEY"), m, "KEY")
      BY <2>2, <1>2
         DEF MasksTo, Masks, InBody, InEntries, K!Past, K!Loop, K!Calling, K!Walker,
             ListPlaces, ExpressionPlaces, BodyPlaces
    <2>6. MasksOn(p, x)
      BY <2>2, <2>4, <2>5 DEF MasksOn
    <2>7. ASSUME NEW q, Quotes(p, q)
          PROVE  Q!next(q, "KEY") = Q!Past(q, "label", "KEY")
      BY <2>7, <1>2 DEF Quotes, Q!next
    <2>8. ASSUME NEW q PROVE QuotesTo(x, Q!Past(q, "label", "KEY"), q)
      BY <2>2, <1>2
         DEF QuotesTo, Quotes, InQuotes, InBody, InEntries, Q!Past, Q!Loop,
             Q!Walker, ListPlaces, ExpressionPlaces, BodyPlaces
    <2>9. QuotesOn(p, x)
      BY <2>2, <2>7, <2>8 DEF QuotesOn
    <2>10. QED
      BY <2>3, <2>6, <2>9 DEF Moves

LEMMA NamedMoves ==
    ASSUME NEW p, Placed(p), p.at = "named", NEW arc \in From(p)
    PROVE  Moves(p, arc.is)
  <1> DEFINE x == arc.is
  <1>1. From(p) = Constraint(p)
    BY DEF From
  <1>2. p.at = "named" /\ p.column = 0 /\ p.deep = << >>
    BY Outside
       DEF Settled, Titles, ColumnPlaces, ConstraintPlaces, EntryPlaces, ListPlaces,
           ExpressionPlaces
  <1>3. CASE arc = Goes(p, 0, "PRIMARY", "word", "primary")
    <2>1. x = Symbol("PRIMARY", "word", "primary", p.deep, p.column, << >>)
      BY <1>3 DEF Goes, Arc
    <2>2. /\ x.word = "PRIMARY" /\ x.role = "word" /\ x.at = "primary"
          /\ x.deep = p.deep /\ x.column = p.column /\ x.body = << >>
      BY <2>1 DEF Symbol
    <2>3. x \in Symbols /\ Placed(x)
      <3>1. Settled(x)
        BY <2>2, <1>2
           DEF Settled, Titles, ColumnPlaces, ConstraintPlaces, EntryPlaces
      <3>2. x \in Symbols
        BY <2>1, <2>2, <1>2
           DEF Symbol, Symbols, Places, ConstraintPlaces, Roles, Words
      <3>3. QED
        BY <2>2, <1>2, <3>1, <3>2 DEF Placed
    <2>4. ASSUME NEW m, Masks(p, m)
          PROVE  K!next(m, "PRIMARY") = K!Past(m, "PRIMARY", "PRIMARY")
      BY <2>4, <1>2 DEF Masks, K!next, K!tableConstraint
    <2>5. ASSUME NEW m
          PROVE  MasksTo(x, K!Past(m, "PRIMARY", "PRIMARY"), m, "PRIMARY")
      BY <2>2, <1>2
         DEF MasksTo, Masks, InBody, InEntries, K!Past, K!Loop, K!Calling, K!Walker,
             ListPlaces, ExpressionPlaces, BodyPlaces
    <2>6. MasksOn(p, x)
      BY <2>2, <2>4, <2>5 DEF MasksOn
    <2>7. ASSUME NEW q, Quotes(p, q)
          PROVE  Q!next(q, "PRIMARY") = Q!Past(q, "PRIMARY", "PRIMARY")
      BY <2>7, <1>2 DEF Quotes, Q!next, Q!tableConstraint
    <2>8. ASSUME NEW q PROVE QuotesTo(x, Q!Past(q, "PRIMARY", "PRIMARY"), q)
      BY <2>2, <1>2
         DEF QuotesTo, Quotes, InQuotes, InBody, InEntries, Q!Past, Q!Loop,
             Q!Walker, ListPlaces, ExpressionPlaces, BodyPlaces
    <2>9. QuotesOn(p, x)
      BY <2>2, <2>7, <2>8 DEF QuotesOn
    <2>10. QED
      BY <2>3, <2>6, <2>9 DEF Moves
  <1>4. CASE arc = Goes(p, 0, "UNIQUE", "word", "keys")
    <2>1. x = Symbol("UNIQUE", "word", "keys", p.deep, p.column, << >>)
      BY <1>4 DEF Goes, Arc
    <2>2. /\ x.word = "UNIQUE" /\ x.role = "word" /\ x.at = "keys"
          /\ x.deep = p.deep /\ x.column = p.column /\ x.body = << >>
      BY <2>1 DEF Symbol
    <2>3. x \in Symbols /\ Placed(x)
      <3>1. Settled(x)
        BY <2>2, <1>2
           DEF Settled, Titles, ColumnPlaces, ConstraintPlaces, EntryPlaces
      <3>2. x \in Symbols
        BY <2>1, <2>2, <1>2
           DEF Symbol, Symbols, Places, ConstraintPlaces, Roles, Words
      <3>3. QED
        BY <2>2, <1>2, <3>1, <3>2 DEF Placed
    <2>4. ASSUME NEW m, Masks(p, m)
          PROVE  K!next(m, "UNIQUE") = K!Past(m, "keys", "UNIQUE")
      BY <2>4, <1>2 DEF Masks, K!next, K!tableConstraint
    <2>5. ASSUME NEW m PROVE MasksTo(x, K!Past(m, "keys", "UNIQUE"), m, "UNIQUE")
      BY <2>2, <1>2
         DEF MasksTo, Masks, InBody, InEntries, K!Past, K!Loop, K!Calling, K!Walker,
             ListPlaces, ExpressionPlaces, BodyPlaces
    <2>6. MasksOn(p, x)
      BY <2>2, <2>4, <2>5 DEF MasksOn
    <2>7. ASSUME NEW q, Quotes(p, q)
          PROVE  Q!next(q, "UNIQUE") = Q!Past(q, "keys", "UNIQUE")
      BY <2>7, <1>2 DEF Quotes, Q!next, Q!tableConstraint
    <2>8. ASSUME NEW q PROVE QuotesTo(x, Q!Past(q, "keys", "UNIQUE"), q)
      BY <2>2, <1>2
         DEF QuotesTo, Quotes, InQuotes, InBody, InEntries, Q!Past, Q!Loop,
             Q!Walker, ListPlaces, ExpressionPlaces, BodyPlaces
    <2>9. QuotesOn(p, x)
      BY <2>2, <2>7, <2>8 DEF QuotesOn
    <2>10. QED
      BY <2>3, <2>6, <2>9 DEF Moves
  <1>5. CASE arc = Goes(p, 0, "CHECK", "word", "expression")
    <2>1. x = Symbol("CHECK", "word", "expression", p.deep, p.column, << >>)
      BY <1>5 DEF Goes, Arc
    <2>2. /\ x.word = "CHECK" /\ x.role = "word" /\ x.at = "expression"
          /\ x.deep = p.deep /\ x.column = p.column /\ x.body = << >>
      BY <2>1 DEF Symbol
    <2>3. x \in Symbols /\ Placed(x)
      <3>1. Settled(x)
        BY <2>2, <1>2
           DEF Settled, Titles, ColumnPlaces, ConstraintPlaces, EntryPlaces
      <3>2. x \in Symbols
        BY <2>1, <2>2, <1>2 DEF Symbol, Symbols, Places, EntryPlaces, Roles, Words
      <3>3. QED
        BY <2>2, <1>2, <3>1, <3>2 DEF Placed
    <2>4. ASSUME NEW m, Masks(p, m)
          PROVE  K!next(m, "CHECK") = K!Calling(m, "maskParenClause", 0, "columnList", "CHECK")
      BY <2>4, <1>2 DEF Masks, K!next, K!tableConstraint
    <2>5. ASSUME NEW m
          PROVE  MasksTo(x, K!Calling(m, "maskParenClause", 0, "columnList", "CHECK"), m, "CHECK")
      BY <2>2, <1>2
         DEF MasksTo, Masks, InBody, InEntries, AfterBody, K!Calling, K!Walker,
             ListPlaces, ExpressionPlaces, BodyPlaces
    <2>6. MasksOn(p, x)
      BY <2>2, <2>4, <2>5 DEF MasksOn
    <2>7. ASSUME NEW q, Quotes(p, q)
          PROVE  Q!next(q, "CHECK") = Q!Past(q, "CHECK", "CHECK")
      BY <2>7, <1>2 DEF Quotes, Q!next, Q!tableConstraint
    <2>8. ASSUME NEW q PROVE QuotesTo(x, Q!Past(q, "CHECK", "CHECK"), q)
      BY <2>2, <1>2
         DEF QuotesTo, Quotes, InQuotes, InBody, InEntries, AfterBody, Q!Past,
             Q!Loop, Q!Walker, ListPlaces, ExpressionPlaces, BodyPlaces
    <2>9. QuotesOn(p, x)
      BY <2>2, <2>7, <2>8 DEF QuotesOn
    <2>10. QED
      BY <2>3, <2>6, <2>9 DEF Moves
  <1>6. CASE arc = Goes(p, 0, "FOREIGN", "word", "foreign")
    <2>1. x = Symbol("FOREIGN", "word", "foreign", p.deep, p.column, << >>)
      BY <1>6 DEF Goes, Arc
    <2>2. /\ x.word = "FOREIGN" /\ x.role = "word" /\ x.at = "foreign"
          /\ x.deep = p.deep /\ x.column = p.column /\ x.body = << >>
      BY <2>1 DEF Symbol
    <2>3. x \in Symbols /\ Placed(x)
      <3>1. Settled(x)
        BY <2>2, <1>2
           DEF Settled, Titles, ColumnPlaces, ConstraintPlaces, EntryPlaces
      <3>2. x \in Symbols
        BY <2>1, <2>2, <1>2
           DEF Symbol, Symbols, Places, ConstraintPlaces, Roles, Words
      <3>3. QED
        BY <2>2, <1>2, <3>1, <3>2 DEF Placed
    <2>4. ASSUME NEW m, Masks(p, m)
          PROVE  K!next(m, "FOREIGN") = K!Past(m, "FOREIGN", "FOREIGN")
      BY <2>4, <1>2 DEF Masks, K!next, K!tableConstraint
    <2>5. ASSUME NEW m
          PROVE  MasksTo(x, K!Past(m, "FOREIGN", "FOREIGN"), m, "FOREIGN")
      BY <2>2, <1>2
         DEF MasksTo, Masks, InBody, InEntries, K!Past, K!Loop, K!Calling, K!Walker,
             ListPlaces, ExpressionPlaces, BodyPlaces
    <2>6. MasksOn(p, x)
      BY <2>2, <2>4, <2>5 DEF MasksOn
    <2>7. ASSUME NEW q, Quotes(p, q)
          PROVE  Q!next(q, "FOREIGN") = Q!Past(q, "FOREIGN", "FOREIGN")
      BY <2>7, <1>2 DEF Quotes, Q!next, Q!tableConstraint
    <2>8. ASSUME NEW q PROVE QuotesTo(x, Q!Past(q, "FOREIGN", "FOREIGN"), q)
      BY <2>2, <1>2
         DEF QuotesTo, Quotes, InQuotes, InBody, InEntries, Q!Past, Q!Loop,
             Q!Walker, ListPlaces, ExpressionPlaces, BodyPlaces
    <2>9. QuotesOn(p, x)
      BY <2>2, <2>7, <2>8 DEF QuotesOn
    <2>10. QED
      BY <2>3, <2>6, <2>9 DEF Moves
  <1>7. QED
    BY <1>1, <1>2, <1>3, <1>4, <1>5, <1>6 DEF Constraint

LEMMA PrimaryMoves ==
    ASSUME NEW p, Placed(p), p.at = "primary", NEW arc \in From(p)
    PROVE  Moves(p, arc.is)
  <1> DEFINE x == arc.is
  <1>1. From(p) = {Goes(p, 0, "KEY", "word", "keys")}
    BY DEF From
  <1>2. p.at = "primary" /\ p.column = 0 /\ p.deep = << >>
    BY Outside
       DEF Settled, Titles, ColumnPlaces, ConstraintPlaces, EntryPlaces, ListPlaces,
           ExpressionPlaces
  <1>3. arc = Goes(p, 0, "KEY", "word", "keys")
    BY <1>1
  <1>4. QED
    <2>1. x = Symbol("KEY", "word", "keys", p.deep, p.column, << >>)
      BY <1>3 DEF Goes, Arc
    <2>2. /\ x.word = "KEY" /\ x.role = "word" /\ x.at = "keys"
          /\ x.deep = p.deep /\ x.column = p.column /\ x.body = << >>
      BY <2>1 DEF Symbol
    <2>3. x \in Symbols /\ Placed(x)
      <3>1. Settled(x)
        BY <2>2, <1>2
           DEF Settled, Titles, ColumnPlaces, ConstraintPlaces, EntryPlaces
      <3>2. x \in Symbols
        BY <2>1, <2>2, <1>2
           DEF Symbol, Symbols, Places, ConstraintPlaces, Roles, Words
      <3>3. QED
        BY <2>2, <1>2, <3>1, <3>2 DEF Placed
    <2>4. ASSUME NEW m, Masks(p, m)
          PROVE  K!next(m, "KEY") = K!Past(m, "keys", "KEY")
      BY <2>4, <1>2 DEF Masks, K!next
    <2>5. ASSUME NEW m PROVE MasksTo(x, K!Past(m, "keys", "KEY"), m, "KEY")
      BY <2>2, <1>2
         DEF MasksTo, Masks, InBody, InEntries, K!Past, K!Loop, K!Calling, K!Walker,
             ListPlaces, ExpressionPlaces, BodyPlaces
    <2>6. MasksOn(p, x)
      BY <2>2, <2>4, <2>5 DEF MasksOn
    <2>7. ASSUME NEW q, Quotes(p, q)
          PROVE  Q!next(q, "KEY") = Q!Past(q, "keys", "KEY")
      BY <2>7, <1>2 DEF Quotes, Q!next
    <2>8. ASSUME NEW q PROVE QuotesTo(x, Q!Past(q, "keys", "KEY"), q)
      BY <2>2, <1>2
         DEF QuotesTo, Quotes, InQuotes, InBody, InEntries, Q!Past, Q!Loop,
             Q!Walker, ListPlaces, ExpressionPlaces, BodyPlaces
    <2>9. QuotesOn(p, x)
      BY <2>2, <2>7, <2>8 DEF QuotesOn
    <2>10. QED
      BY <2>3, <2>6, <2>9 DEF Moves

LEMMA ForeignMoves ==
    ASSUME NEW p, Placed(p), p.at = "foreign", NEW arc \in From(p)
    PROVE  Moves(p, arc.is)
  <1> DEFINE x == arc.is
  <1>1. From(p) = {Goes(p, 0, "KEY", "word", "children")}
    BY DEF From
  <1>2. p.at = "foreign" /\ p.column = 0 /\ p.deep = << >>
    BY Outside
       DEF Settled, Titles, ColumnPlaces, ConstraintPlaces, EntryPlaces, ListPlaces,
           ExpressionPlaces
  <1>3. arc = Goes(p, 0, "KEY", "word", "children")
    BY <1>1
  <1>4. QED
    <2>1. x = Symbol("KEY", "word", "children", p.deep, p.column, << >>)
      BY <1>3 DEF Goes, Arc
    <2>2. /\ x.word = "KEY" /\ x.role = "word" /\ x.at = "children"
          /\ x.deep = p.deep /\ x.column = p.column /\ x.body = << >>
      BY <2>1 DEF Symbol
    <2>3. x \in Symbols /\ Placed(x)
      <3>1. Settled(x)
        BY <2>2, <1>2
           DEF Settled, Titles, ColumnPlaces, ConstraintPlaces, EntryPlaces
      <3>2. x \in Symbols
        BY <2>1, <2>2, <1>2
           DEF Symbol, Symbols, Places, ConstraintPlaces, Roles, Words
      <3>3. QED
        BY <2>2, <1>2, <3>1, <3>2 DEF Placed
    <2>4. ASSUME NEW m, Masks(p, m)
          PROVE  K!next(m, "KEY") = K!Past(m, "foreignKey", "KEY")
      BY <2>4, <1>2 DEF Masks, K!next
    <2>5. ASSUME NEW m PROVE MasksTo(x, K!Past(m, "foreignKey", "KEY"), m, "KEY")
      BY <2>2, <1>2
         DEF MasksTo, Masks, InBody, InEntries, K!Past, K!Loop, K!Calling, K!Walker,
             ListPlaces, ExpressionPlaces, BodyPlaces
    <2>6. MasksOn(p, x)
      BY <2>2, <2>4, <2>5 DEF MasksOn
    <2>7. ASSUME NEW q, Quotes(p, q)
          PROVE  Q!next(q, "KEY") = Q!Past(q, "foreignKey", "KEY")
      BY <2>7, <1>2 DEF Quotes, Q!next
    <2>8. ASSUME NEW q PROVE QuotesTo(x, Q!Past(q, "foreignKey", "KEY"), q)
      BY <2>2, <1>2
         DEF QuotesTo, Quotes, InQuotes, InBody, InEntries, Q!Past, Q!Loop,
             Q!Walker, ListPlaces, ExpressionPlaces, BodyPlaces
    <2>9. QuotesOn(p, x)
      BY <2>2, <2>7, <2>8 DEF QuotesOn
    <2>10. QED
      BY <2>3, <2>6, <2>9 DEF Moves

LEMMA ReferencesMoves ==
    ASSUME NEW p, Placed(p), p.at = "references", NEW arc \in From(p)
    PROVE  Moves(p, arc.is)
  <1> DEFINE x == arc.is
  <1>1. From(p) = {Goes(p, 0, "REFERENCES", "word", "parent")}
    BY DEF From
  <1>2. p.at = "references" /\ p.column = 0 /\ p.deep = << >>
    BY Outside
       DEF Settled, Titles, ColumnPlaces, ConstraintPlaces, EntryPlaces, ListPlaces,
           ExpressionPlaces
  <1>3. arc = Goes(p, 0, "REFERENCES", "word", "parent")
    BY <1>1
  <1>4. QED
    <2>1. x = Symbol("REFERENCES", "word", "parent", p.deep, p.column, << >>)
      BY <1>3 DEF Goes, Arc
    <2>2. /\ x.word = "REFERENCES" /\ x.role = "word" /\ x.at = "parent"
          /\ x.deep = p.deep /\ x.column = p.column /\ x.body = << >>
      BY <2>1 DEF Symbol
    <2>3. x \in Symbols /\ Placed(x)
      <3>1. Settled(x)
        BY <2>2, <1>2
           DEF Settled, Titles, ColumnPlaces, ConstraintPlaces, EntryPlaces
      <3>2. x \in Symbols
        BY <2>1, <2>2, <1>2 DEF Symbol, Symbols, Places, EntryPlaces, Roles, Words
      <3>3. QED
        BY <2>2, <1>2, <3>1, <3>2 DEF Placed
    <2>4. ASSUME NEW m, Masks(p, m)
          PROVE  K!next(m, "REFERENCES") = K!Past(m, "REFERENCES", "REFERENCES")
      BY <2>4, <1>2 DEF Masks, K!next, K!foreignKeyTail
    <2>5. ASSUME NEW m
          PROVE  MasksTo(x, K!Past(m, "REFERENCES", "REFERENCES"), m, "REFERENCES")
      BY <2>2, <1>2
         DEF MasksTo, Masks, InBody, InEntries, K!Past, K!Loop, K!Calling, K!Walker,
             ListPlaces, ExpressionPlaces, BodyPlaces
    <2>6. MasksOn(p, x)
      BY <2>2, <2>4, <2>5 DEF MasksOn
    <2>7. ASSUME NEW q, Quotes(p, q)
          PROVE  Q!next(q, "REFERENCES") = Q!Past(q, "REFERENCES", "REFERENCES")
      BY <2>7, <1>2 DEF Quotes, Q!next, Q!foreignKeyTail
    <2>8. ASSUME NEW q PROVE QuotesTo(x, Q!Past(q, "REFERENCES", "REFERENCES"), q)
      BY <2>2, <1>2
         DEF QuotesTo, Quotes, InQuotes, InBody, InEntries, Q!Past, Q!Loop,
             Q!Walker, ListPlaces, ExpressionPlaces, BodyPlaces
    <2>9. QuotesOn(p, x)
      BY <2>2, <2>7, <2>8 DEF QuotesOn
    <2>10. QED
      BY <2>3, <2>6, <2>9 DEF Moves

LEMMA KeysMoves ==
    ASSUME NEW p, Placed(p), p.at = "keys", NEW arc \in From(p)
    PROVE  Moves(p, arc.is)
  <1> DEFINE x == arc.is
  <1>1. From(p) = {Opens(p, "(", "word", "list", "keys")}
    BY DEF From
  <1>2. p.at = "keys" /\ p.column = 0 /\ p.deep = << >>
    BY Outside
       DEF Settled, Titles, ColumnPlaces, ConstraintPlaces, EntryPlaces, ListPlaces,
           ExpressionPlaces
  <1>3. arc = Opens(p, "(", "word", "list", "keys")
    BY <1>1
  <1>4. QED
    <2>1. x = Symbol("(", "word", "list", Append(p.deep, "keys"), p.column, << >>)
      BY <1>3 DEF Opens, Arc
    <2>2. /\ x.word = "(" /\ x.role = "word" /\ x.at = "list"
          /\ x.deep = Append(p.deep, "keys") /\ x.column = p.column /\ x.body = << >>
      BY <2>1 DEF Symbol
    <2>3. x.deep \in Seq(Whats) /\ Len(x.deep) = 1 /\ Last(x.deep) = "keys"
      BY <2>2, <1>2, OneDeep DEF Whats
    <2>4. x \in Symbols /\ Placed(x)
      <3>1. InList(x)
        BY <2>2, <2>3, <1>2 DEF InList
      <3>2. x \in Symbols
        BY <2>1, <2>2, <1>2, <3>1
           DEF Symbol, Symbols, Places, ListPlaces, Roles, Words, InList
      <3>3. QED
        BY <2>2, <1>2, <3>1, <3>2 DEF Placed, ListPlaces
    <2>5. ASSUME NEW m, Masks(p, m)
          PROVE  K!next(m, "(") = K!Calling(m, "copyParenList", 1, "columnBody", "(")
      BY <2>5, <1>2 DEF Masks, K!next, K!primaryOrUnique, K!beginList
    <2>6. ASSUME NEW m
          PROVE  MasksTo(x, K!Calling(m, "copyParenList", 1, "columnBody", "("), m, "(")
      BY <2>2, <2>3, <1>2
         DEF MasksTo, Masks, InBody, InEntries, AfterList, K!Calling, K!Walker,
             ListPlaces, ExpressionPlaces, BodyPlaces
    <2>7. MasksOn(p, x)
      BY <2>2, <2>5, <2>6 DEF MasksOn
    <2>8. ASSUME NEW q, Quotes(p, q)
          PROVE  Q!next(q, "(") = Q!Walker("ident", 1, "columnBody", Append(q.out, "("))
      BY <2>8, <1>2 DEF Quotes, Q!next, Q!primaryOrUnique, Q!beginList
    <2>9. ASSUME NEW q
          PROVE  QuotesTo(x, Q!Walker("ident", 1, "columnBody", Append(q.out, "(")), q)
      BY <2>2, <2>3, <1>2
         DEF QuotesTo, Quotes, InQuotes, InBody, InEntries, AfterList, Q!Walker,
             ListPlaces, ExpressionPlaces, BodyPlaces
    <2>10. QuotesOn(p, x)
      BY <2>2, <2>8, <2>9 DEF QuotesOn
    <2>11. QED
      BY <2>4, <2>7, <2>10 DEF Moves

LEMMA ChildrenMoves ==
    ASSUME NEW p, Placed(p), p.at = "children", NEW arc \in From(p)
    PROVE  Moves(p, arc.is)
  <1> DEFINE x == arc.is
  <1>1. From(p) = {Opens(p, "(", "word", "list", "children")}
    BY DEF From
  <1>2. p.at = "children" /\ p.column = 0 /\ p.deep = << >>
    BY Outside
       DEF Settled, Titles, ColumnPlaces, ConstraintPlaces, EntryPlaces, ListPlaces,
           ExpressionPlaces
  <1>3. arc = Opens(p, "(", "word", "list", "children")
    BY <1>1
  <1>4. QED
    <2>1. x = Symbol("(", "word", "list", Append(p.deep, "children"), p.column, << >>)
      BY <1>3 DEF Opens, Arc
    <2>2. /\ x.word = "(" /\ x.role = "word" /\ x.at = "list"
          /\ x.deep = Append(p.deep, "children") /\ x.column = p.column /\ x.body = << >>
      BY <2>1 DEF Symbol
    <2>3. x.deep \in Seq(Whats) /\ Len(x.deep) = 1 /\ Last(x.deep) = "children"
      BY <2>2, <1>2, OneDeep DEF Whats
    <2>4. x \in Symbols /\ Placed(x)
      <3>1. InList(x)
        BY <2>2, <2>3, <1>2 DEF InList
      <3>2. x \in Symbols
        BY <2>1, <2>2, <1>2, <3>1
           DEF Symbol, Symbols, Places, ListPlaces, Roles, Words, InList
      <3>3. QED
        BY <2>2, <1>2, <3>1, <3>2 DEF Placed, ListPlaces
    <2>5. ASSUME NEW m, Masks(p, m)
          PROVE  K!next(m, "(") = K!Calling(m, "copyParenList", 1, "children", "(")
      BY <2>5, <1>2 DEF Masks, K!next, K!foreignKey, K!beginList
    <2>6. ASSUME NEW m
          PROVE  MasksTo(x, K!Calling(m, "copyParenList", 1, "children", "("), m, "(")
      BY <2>2, <2>3, <1>2
         DEF MasksTo, Masks, InBody, InEntries, AfterList, K!Calling, K!Walker,
             ListPlaces, ExpressionPlaces, BodyPlaces
    <2>7. MasksOn(p, x)
      BY <2>2, <2>5, <2>6 DEF MasksOn
    <2>8. ASSUME NEW q, Quotes(p, q)
          PROVE  Q!next(q, "(") = Q!Walker("ident", 1, "children", Append(q.out, "("))
      BY <2>8, <1>2 DEF Quotes, Q!next, Q!foreignKey, Q!beginList
    <2>9. ASSUME NEW q
          PROVE  QuotesTo(x, Q!Walker("ident", 1, "children", Append(q.out, "(")), q)
      BY <2>2, <2>3, <1>2
         DEF QuotesTo, Quotes, InQuotes, InBody, InEntries, AfterList, Q!Walker,
             ListPlaces, ExpressionPlaces, BodyPlaces
    <2>10. QuotesOn(p, x)
      BY <2>2, <2>8, <2>9 DEF QuotesOn
    <2>11. QED
      BY <2>4, <2>7, <2>10 DEF Moves

LEMMA OptionsMoves ==
    ASSUME NEW p, Placed(p), p.at = "options", NEW arc \in From(p)
    PROVE  Moves(p, arc.is)
  <1> DEFINE x == arc.is
  <1>1. From(p) = {Goes(p, 0, "plain", "word", "ended")}
    BY DEF From
  <1>2. p.at = "options" /\ p.column = 0 /\ p.deep = << >>
    BY Outside
       DEF Settled, Titles, ColumnPlaces, ConstraintPlaces, EntryPlaces, ListPlaces,
           ExpressionPlaces
  <1>3. arc = Goes(p, 0, "plain", "word", "ended")
    BY <1>1
  <1>4. QED
    <2>1. x = Symbol("plain", "word", "ended", p.deep, p.column, << >>)
      BY <1>3 DEF Goes, Arc
    <2>2. /\ x.word = "plain" /\ x.role = "word" /\ x.at = "ended"
          /\ x.deep = p.deep /\ x.column = p.column /\ x.body = << >>
      BY <2>1 DEF Symbol
    <2>3. x \in Symbols /\ Placed(x)
      <3>1. Settled(x)
        BY <2>2, <1>2
           DEF Settled, Titles, ColumnPlaces, ConstraintPlaces, EntryPlaces
      <3>2. x \in Symbols
        BY <2>1, <2>2, <1>2 DEF Symbol, Symbols, Places, Titles, Roles, Words
      <3>3. QED
        BY <2>2, <1>2, <3>1, <3>2 DEF Placed
    <2>4. ASSUME NEW m, Masks(p, m)
          PROVE  K!next(m, "plain") = K!Past(m, "statements", "plain")
      BY <2>4, <1>2 DEF Masks, K!next, K!statements
    <2>5. ASSUME NEW m
          PROVE  MasksTo(x, K!Past(m, "statements", "plain"), m, "plain")
      BY <2>2, <1>2
         DEF MasksTo, Masks, InBody, InEntries, K!Past, K!Loop, K!Calling, K!Walker,
             ListPlaces, ExpressionPlaces, BodyPlaces
    <2>6. MasksOn(p, x)
      BY <2>2, <2>4, <2>5 DEF MasksOn
    <2>7. ASSUME NEW q, Quotes(p, q)
          PROVE  Q!next(q, "plain") = Q!Past(q, "statements", "plain")
      BY <2>7, <1>2 DEF Quotes, Q!next, Q!statements
    <2>8. ASSUME NEW q PROVE QuotesTo(x, Q!Past(q, "statements", "plain"), q)
      BY <2>2, <1>2
         DEF QuotesTo, Quotes, InQuotes, InBody, InEntries, Q!Past, Q!Loop,
             Q!Walker, ListPlaces, ExpressionPlaces, BodyPlaces
    <2>9. QuotesOn(p, x)
      BY <2>2, <2>7, <2>8 DEF QuotesOn
    <2>10. QED
      BY <2>3, <2>6, <2>9 DEF Moves

-----------------------------------------------------------------------------
(***************************************************************************)
(* Lists of columns.                                                       *)
(***************************************************************************)
LEMMA ListMoves ==
    ASSUME NEW p, Placed(p), p.at = "list", NEW arc \in From(p)
    PROVE  Moves(p, arc.is)
  <1> DEFINE x == arc.is
  <1>1. From(p) = Id(p, IF Last(p.deep) = "parent" THEN KeyName(p) ELSE "name", "listed")
    BY DEF From
  <1>2. p.at = "list" /\ p.column \in Nat /\ InList(p)
    BY Within DEF ListPlaces
  <1>3. Front(p.deep) = << >> /\ (Last(p.deep) # "parent" => p.column = 0)
    BY <1>2, OutOfOne DEF InList
  <1>4. ASSUME NEW word \in {"plain", "name", "KEY"},
               arc = Goes(p, IF word = "plain" THEN 0 ELSE 1, word,
                          IF Last(p.deep) = "parent" THEN KeyName(p) ELSE "name", "listed")
        PROVE  Moves(p, x)
    <2>1. x = Symbol(word, (IF Last(p.deep) = "parent" THEN KeyName(p) ELSE "name"),
                     "listed", p.deep, p.column, << >>)
      BY <1>4 DEF Goes, Arc
    <2>2. /\ x.word = word /\ x.at = "listed"
          /\ x.role = (IF Last(p.deep) = "parent" THEN KeyName(p) ELSE "name")
          /\ x.deep = p.deep /\ x.column = p.column /\ x.body = << >>
      BY <2>1 DEF Symbol
    <2>3. x \in Symbols /\ Placed(x)
      <3>1. InList(x)
        BY <2>2, <1>2, <1>3 DEF InList
      <3>2. x \in Symbols
        <4>1. word \in Words
          BY <1>4 DEF Words
        <4>2. (IF Last(p.deep) = "parent" THEN KeyName(p) ELSE "name") \in Roles
          BY DEF Roles, KeyWord, KeyName
        <4>3. QED
          BY <2>1, <2>2, <1>2, <1>3, <3>1, <4>1, <4>2
             DEF Symbol, Symbols, Places, ListPlaces, InList
      <3>3. QED
        BY <2>2, <1>2, <1>3, <3>1, <3>2 DEF Placed, ListPlaces
    <2>4. ASSUME NEW m, Masks(p, m)
          PROVE  /\ p.column = 0 => K!next(m, word) = K!Loop(m, "copyParenList", 1, word)
                 /\ p.column # 0 => K!next(m, word) = K!Loop(m, "columnBody", 1, word)
      <3>1. CASE p.column = 0
        BY <2>4, <3>1, <1>4, <1>2, <1>3, Deepens
           DEF Masks, K!next, K!copyParenList, K!columnBody, ListPlaces
      <3>2. CASE p.column # 0
        BY <2>4, <3>2, <1>4, <1>2, <1>3, Deepens
           DEF Masks, K!next, K!copyParenList, K!columnBody, ListPlaces
      <3>3. QED
        BY <3>1, <3>2
    <2>5. ASSUME NEW m, Masks(p, m)
          PROVE  /\ p.column = 0 => MasksTo(x, K!Loop(m, "copyParenList", 1, word), m, word)
                 /\ p.column # 0 => MasksTo(x, K!Loop(m, "columnBody", 1, word), m, word)
      BY <2>5, <2>2, <1>2, <1>3
         DEF MasksTo, Masks, InBody, InEntries, AfterList, K!Loop, K!Calling,
             K!Walker, ListPlaces, ExpressionPlaces, BodyPlaces
    <2>6. MasksOn(p, x)
      BY <2>2, <2>4, <2>5 DEF MasksOn
    <2>7. ASSUME NEW q, Quotes(p, q)
          PROVE  Q!next(q, word) = Q!Loop(q, "identList", 1, Q!quoteIdentAt(word))
      BY <2>7, <1>4, <1>2, <1>3, Deepens
         DEF Quotes, Q!next, Q!identList, Q!Punctuation, ListPlaces
    <2>8. ASSUME NEW q, Quotes(p, q)
          PROVE  QuotesTo(x, Q!Loop(q, "identList", 1, Q!quoteIdentAt(word)), q)
      BY <2>8, <2>2, <1>2, <1>3, <1>4
         DEF QuotesTo, Quotes, InQuotes, KeyWord, KeyName, InBody, InEntries,
             AfterList, Q!Loop, Q!Walker, ListPlaces, ExpressionPlaces, BodyPlaces
    <2>9. QuotesOn(p, x)
      BY <2>2, <2>7, <2>8 DEF QuotesOn
    <2>10. QED
      BY <2>3, <2>6, <2>9 DEF Moves
  <1>5. QED
    BY <1>1, <1>2, <1>3, <1>4 DEF Id

LEMMA CollationMoves ==
    ASSUME NEW p, Placed(p), p.at = "collation", NEW arc \in From(p)
    PROVE  Moves(p, arc.is)
  <1> DEFINE x == arc.is
  <1>1. From(p) = {Goes(p, 0, "name", "word", "listed")}
    BY DEF From
  <1>2. p.at = "collation" /\ p.column \in Nat /\ InList(p)
    BY Within DEF ListPlaces
  <1>3. Front(p.deep) = << >> /\ (Last(p.deep) # "parent" => p.column = 0)
    BY <1>2, OutOfOne DEF InList
  <1>4. arc = Goes(p, 0, "name", "word", "listed")
    BY <1>1
  <1>5. QED
    <2>1. x = Symbol("name", "word", "listed", p.deep, p.column, << >>)
      BY <1>4 DEF Goes, Arc
    <2>2. /\ x.word = "name" /\ x.role = "word" /\ x.at = "listed"
          /\ x.deep = p.deep /\ x.column = p.column /\ x.body = << >>
      BY <2>1 DEF Symbol
    <2>3. x \in Symbols /\ Placed(x)
      <3>1. InList(x)
        BY <2>2, <1>2, <1>3 DEF InList
      <3>2. x \in Symbols
        BY <2>1, <2>2, <1>2, <1>3, <3>1
           DEF Symbol, Symbols, Places, ListPlaces, Roles, Words, InList
      <3>3. QED
        BY <2>2, <1>2, <1>3, <3>1, <3>2 DEF Placed, ListPlaces
    <2>4. ASSUME NEW m, Masks(p, m)
          PROVE  /\ p.column = 0 => K!next(m, "name") = K!Loop(m, "copyParenList", 1, "name")
                 /\ p.column # 0 => K!next(m, "name") = K!Loop(m, "columnBody", 1, "name")
      <3>1. CASE p.column = 0
        BY <2>4, <3>1, <1>2, <1>3, Deepens
           DEF Masks, K!next, K!copyParenList, K!columnBody, ListPlaces
      <3>2. CASE p.column # 0
        BY <2>4, <3>2, <1>2, <1>3, Deepens
           DEF Masks, K!next, K!copyParenList, K!columnBody, ListPlaces
      <3>3. QED
        BY <3>1, <3>2
    <2>5. ASSUME NEW m, Masks(p, m)
          PROVE  /\ p.column = 0 => MasksTo(x, K!Loop(m, "copyParenList", 1, "name"), m, "name")
                 /\ p.column # 0 => MasksTo(x, K!Loop(m, "columnBody", 1, "name"), m, "name")
      BY <2>5, <2>2, <1>2, <1>3
         DEF MasksTo, Masks, InBody, InEntries, AfterList, K!Loop, K!Calling,
             K!Walker, ListPlaces, ExpressionPlaces, BodyPlaces
    <2>6. MasksOn(p, x)
      BY <2>2, <2>4, <2>5 DEF MasksOn
    <2>7. ASSUME NEW q, Quotes(p, q)
          PROVE  Q!next(q, "name") = Q!Loop(q, "identList", 1, "name")
      BY <2>7, <1>2, <1>3, Deepens
         DEF Quotes, Q!next, Q!identList, Q!Punctuation, ListPlaces
    <2>8. ASSUME NEW q, Quotes(p, q)
          PROVE  QuotesTo(x, Q!Loop(q, "identList", 1, "name"), q)
      BY <2>8, <2>2, <1>2, <1>3
         DEF QuotesTo, Quotes, InQuotes, InBody, InEntries, AfterList, Q!Loop,
             Q!Walker, ListPlaces, ExpressionPlaces, BodyPlaces
    <2>9. QuotesOn(p, x)
      BY <2>2, <2>7, <2>8 DEF QuotesOn
    <2>10. QED
      BY <2>3, <2>6, <2>9 DEF Moves

LEMMA ListedMoves ==
    ASSUME NEW p, Placed(p), p.at = "listed", NEW arc \in From(p)
    PROVE  Moves(p, arc.is)
  <1> DEFINE x == arc.is
  <1>1. From(p) = More(p) \cup Listed(p)
    BY DEF From
  <1>2. p.at = "listed" /\ p.column \in Nat /\ InList(p)
    BY Within DEF ListPlaces
  <1>3. Front(p.deep) = << >> /\ (Last(p.deep) # "parent" => p.column = 0)
    BY <1>2, OutOfOne DEF InList
  <1>4. ASSUME p.column = 0, arc = Goes(p, 1, "comma", "word", "list")
        PROVE  Moves(p, x)
    <2>1. x = Symbol("comma", "word", "list", p.deep, p.column, << >>)
      BY <1>4 DEF Goes, Arc
    <2>2. /\ x.word = "comma" /\ x.role = "word" /\ x.at = "list"
          /\ x.deep = p.deep /\ x.column = p.column /\ x.body = << >>
      BY <2>1 DEF Symbol
    <2>3. x \in Symbols /\ Placed(x)
      <3>1. InList(x)
        BY <2>2, <1>2, <1>3, <1>4 DEF InList
      <3>2. x \in Symbols
        BY <2>1, <2>2, <1>2, <1>3, <3>1, <1>4
           DEF Symbol, Symbols, Places, ListPlaces, Roles, Words, InList
      <3>3. QED
        BY <2>2, <1>2, <1>3, <3>1, <3>2, <1>4 DEF Placed, ListPlaces
    <2>4. ASSUME NEW m, Masks(p, m)
          PROVE  /\ p.column = 0 => K!next(m, "comma") = K!Loop(m, "copyParenList", 1, "comma")
                 /\ p.column # 0 => K!next(m, "comma") = K!Loop(m, "columnBody", 1, "comma")
      <3>1. CASE p.column = 0
        BY <2>4, <3>1, <1>4, <1>2, <1>3, Deepens
           DEF Masks, K!next, K!copyParenList, K!columnBody, ListPlaces
      <3>2. CASE p.column # 0
        BY <2>4, <3>2, <1>4, <1>2, <1>3, Deepens
           DEF Masks, K!next, K!copyParenList, K!columnBody, ListPlaces
      <3>3. QED
        BY <3>1, <3>2
    <2>5. ASSUME NEW m, Masks(p, m)
          PROVE  /\ p.column = 0 => MasksTo(x, K!Loop(m, "copyParenList", 1, "comma"), m, "comma")
                 /\ p.column # 0 => MasksTo(x, K!Loop(m, "columnBody", 1, "comma"), m, "comma")
      BY <2>5, <2>2, <1>2, <1>3, <1>4
         DEF MasksTo, Masks, InBody, InEntries, AfterList, K!Loop, K!Calling,
             K!Walker, ListPlaces, ExpressionPlaces, BodyPlaces
    <2>6. MasksOn(p, x)
      BY <2>2, <2>4, <2>5 DEF MasksOn
    <2>7. ASSUME NEW q, Quotes(p, q)
          PROVE  Q!next(q, "comma") = Q!Loop(q, "ident", 1, "comma")
      BY <2>7, <1>4, <1>2, <1>3, Deepens
         DEF Quotes, Q!next, Q!identList, Q!Punctuation, ListPlaces
    <2>8. ASSUME NEW q, Quotes(p, q)
          PROVE  QuotesTo(x, Q!Loop(q, "ident", 1, "comma"), q)
      BY <2>8, <2>2, <1>2, <1>3, <1>4
         DEF QuotesTo, Quotes, InQuotes, InBody, InEntries, AfterList, Q!Loop,
             Q!Walker, ListPlaces, ExpressionPlaces, BodyPlaces
    <2>9. QuotesOn(p, x)
      BY <2>2, <2>7, <2>8 DEF QuotesOn
    <2>10. QED
      BY <2>3, <2>6, <2>9 DEF Moves
  <1>5. ASSUME Last(p.deep) = "keys", arc = Goes(p, 1, "COLLATE", "word", "collation")
        PROVE  Moves(p, x)
    <2>1. x = Symbol("COLLATE", "word", "collation", p.deep, p.column, << >>)
      BY <1>5 DEF Goes, Arc
    <2>2. /\ x.word = "COLLATE" /\ x.role = "word" /\ x.at = "collation"
          /\ x.deep = p.deep /\ x.column = p.column /\ x.body = << >>
      BY <2>1 DEF Symbol
    <2>3. x \in Symbols /\ Placed(x)
      <3>1. InList(x)
        BY <2>2, <1>2, <1>3, <1>5 DEF InList
      <3>2. x \in Symbols
        BY <2>1, <2>2, <1>2, <1>3, <3>1, <1>5
           DEF Symbol, Symbols, Places, ListPlaces, Roles, Words, InList
      <3>3. QED
        BY <2>2, <1>2, <1>3, <3>1, <3>2, <1>5 DEF Placed, ListPlaces
    <2>4. ASSUME NEW m, Masks(p, m)
          PROVE  /\ p.column = 0 => K!next(m, "COLLATE") = K!Loop(m, "copyParenList", 1, "COLLATE")
                 /\ p.column # 0 => K!next(m, "COLLATE") = K!Loop(m, "columnBody", 1, "COLLATE")
      <3>1. CASE p.column = 0
        BY <2>4, <3>1, <1>5, <1>2, <1>3, Deepens
           DEF Masks, K!next, K!copyParenList, K!columnBody, ListPlaces
      <3>2. CASE p.column # 0
        BY <2>4, <3>2, <1>5, <1>2, <1>3, Deepens
           DEF Masks, K!next, K!copyParenList, K!columnBody, ListPlaces
      <3>3. QED
        BY <3>1, <3>2
    <2>5. ASSUME NEW m, Masks(p, m)
          PROVE  /\ p.column = 0 => MasksTo(x, K!Loop(m, "copyParenList", 1, "COLLATE"), m, "COLLATE")
                 /\ p.column # 0 => MasksTo(x, K!Loop(m, "columnBody", 1, "COLLATE"), m, "COLLATE")
      BY <2>5, <2>2, <1>2, <1>3, <1>5
         DEF MasksTo, Masks, InBody, InEntries, AfterList, K!Loop, K!Calling,
             K!Walker, ListPlaces, ExpressionPlaces, BodyPlaces
    <2>6. MasksOn(p, x)
      BY <2>2, <2>4, <2>5 DEF MasksOn
    <2>7. ASSUME NEW q, Quotes(p, q)
          PROVE  Q!next(q, "COLLATE") = Q!Loop(q, "identList", 1, "COLLATE")
      BY <2>7, <1>5, <1>2, <1>3, Deepens
         DEF Quotes, Q!next, Q!identList, Q!Punctuation, ListPlaces
    <2>8. ASSUME NEW q, Quotes(p, q)
          PROVE  QuotesTo(x, Q!Loop(q, "identList", 1, "COLLATE"), q)
      BY <2>8, <2>2, <1>2, <1>3, <1>5
         DEF QuotesTo, Quotes, InQuotes, InBody, InEntries, AfterList, Q!Loop,
             Q!Walker, ListPlaces, ExpressionPlaces, BodyPlaces
    <2>9. QuotesOn(p, x)
      BY <2>2, <2>7, <2>8 DEF QuotesOn
    <2>10. QED
      BY <2>3, <2>6, <2>9 DEF Moves
  <1>6. ASSUME Last(p.deep) = "keys", arc = Closes(p, "word", "rest")
        PROVE  Moves(p, x)
    <2>1. x = Symbol(")", "word", "rest", Front(p.deep), p.column, << >>)
      BY <1>6 DEF Closes, Arc
    <2>2. /\ x.word = ")" /\ x.role = "word" /\ x.at = "rest"
          /\ x.deep = Front(p.deep) /\ x.column = p.column /\ x.body = << >>
      BY <2>1 DEF Symbol
    <2>3. x \in Symbols /\ Placed(x)
      <3>1. Settled(x)
        BY <2>2, <1>2, <1>3, <1>6
           DEF Settled, Titles, ColumnPlaces, ConstraintPlaces, EntryPlaces
      <3>2. x \in Symbols
        BY <2>1, <2>2, <1>2, <1>3, <1>6
           DEF Symbol, Symbols, Places, EntryPlaces, Roles, Words
      <3>3. QED
        BY <2>2, <1>2, <1>3, <1>6, <3>1, <3>2 DEF Placed
    <2>4. ASSUME NEW m, Masks(p, m)
          PROVE  /\ p.column = 0 => K!next(m, ")") = K!Loop(m, AfterList(p), 0, ")")
                 /\ p.column # 0 => K!next(m, ")") = K!Loop(m, "columnBody", 0, ")")
      <3>1. CASE p.column = 0
        BY <2>4, <3>1, <1>6, <1>2, <1>3, Deepens
           DEF Masks, K!next, K!copyParenList, K!columnBody, ListPlaces
      <3>2. CASE p.column # 0
        BY <2>4, <3>2, <1>6, <1>2, <1>3, Deepens
           DEF Masks, K!next, K!copyParenList, K!columnBody, ListPlaces
      <3>3. QED
        BY <3>1, <3>2
    <2>5. ASSUME NEW m
          PROVE  /\ p.column = 0 => MasksTo(x, K!Loop(m, AfterList(p), 0, ")"), m, ")")
                 /\ p.column # 0 => MasksTo(x, K!Loop(m, "columnBody", 0, ")"), m, ")")
      BY <2>2, <1>2, <1>3, <1>6
         DEF MasksTo, Masks, InBody, InEntries, AfterList, K!Loop, K!Calling,
             K!Walker, ListPlaces, ExpressionPlaces, BodyPlaces
    <2>6. MasksOn(p, x)
      BY <2>2, <2>4, <2>5 DEF MasksOn
    <2>7. ASSUME NEW q, Quotes(p, q)
          PROVE  Q!next(q, ")") = Q!Past(q, AfterList(p), ")")
      BY <2>7, <1>6, <1>2, <1>3, Deepens
         DEF Quotes, Q!next, Q!identList, Q!Punctuation, ListPlaces
    <2>8. ASSUME NEW q PROVE QuotesTo(x, Q!Past(q, AfterList(p), ")"), q)
      BY <2>2, <1>2, <1>3, <1>6
         DEF QuotesTo, Quotes, InQuotes, InBody, InEntries, AfterList, Q!Past,
             Q!Loop, Q!Walker, ListPlaces, ExpressionPlaces, BodyPlaces
    <2>9. QuotesOn(p, x)
      BY <2>2, <2>7, <2>8 DEF QuotesOn
    <2>10. QED
      BY <2>3, <2>6, <2>9 DEF Moves
  <1>7. ASSUME Last(p.deep) = "children", arc = Closes(p, "word", "references")
        PROVE  Moves(p, x)
    <2>1. x = Symbol(")", "word", "references", Front(p.deep), p.column, << >>)
      BY <1>7 DEF Closes, Arc
    <2>2. /\ x.word = ")" /\ x.role = "word" /\ x.at = "references"
          /\ x.deep = Front(p.deep) /\ x.column = p.column /\ x.body = << >>
      BY <2>1 DEF Symbol
    <2>3. x \in Symbols /\ Placed(x)
      <3>1. Settled(x)
        BY <2>2, <1>2, <1>3, <1>7
           DEF Settled, Titles, ColumnPlaces, ConstraintPlaces, EntryPlaces
      <3>2. x \in Symbols
        BY <2>1, <2>2, <1>2, <1>3, <1>7
           DEF Symbol, Symbols, Places, ConstraintPlaces, Roles, Words
      <3>3. QED
        BY <2>2, <1>2, <1>3, <1>7, <3>1, <3>2 DEF Placed
    <2>4. ASSUME NEW m, Masks(p, m)
          PROVE  /\ p.column = 0 => K!next(m, ")") = K!Loop(m, AfterList(p), 0, ")")
                 /\ p.column # 0 => K!next(m, ")") = K!Loop(m, "columnBody", 0, ")")
      <3>1. CASE p.column = 0
        BY <2>4, <3>1, <1>7, <1>2, <1>3, Deepens
           DEF Masks, K!next, K!copyParenList, K!columnBody, ListPlaces
      <3>2. CASE p.column # 0
        BY <2>4, <3>2, <1>7, <1>2, <1>3, Deepens
           DEF Masks, K!next, K!copyParenList, K!columnBody, ListPlaces
      <3>3. QED
        BY <3>1, <3>2
    <2>5. ASSUME NEW m
          PROVE  /\ p.column = 0 => MasksTo(x, K!Loop(m, AfterList(p), 0, ")"), m, ")")
                 /\ p.column # 0 => MasksTo(x, K!Loop(m, "columnBody", 0, ")"), m, ")")
      BY <2>2, <1>2, <1>3, <1>7
         DEF MasksTo, Masks, InBody, InEntries, AfterList, K!Loop, K!Calling,
             K!Walker, ListPlaces, ExpressionPlaces, BodyPlaces
    <2>6. MasksOn(p, x)
      BY <2>2, <2>4, <2>5 DEF MasksOn
    <2>7. ASSUME NEW q, Quotes(p, q)
          PROVE  Q!next(q, ")") = Q!Past(q, AfterList(p), ")")
      BY <2>7, <1>7, <1>2, <1>3, Deepens
         DEF Quotes, Q!next, Q!identList, Q!Punctuation, ListPlaces
    <2>8. ASSUME NEW q PROVE QuotesTo(x, Q!Past(q, AfterList(p), ")"), q)
      BY <2>2, <1>2, <1>3, <1>7
         DEF QuotesTo, Quotes, InQuotes, InBody, InEntries, AfterList, Q!Past,
             Q!Loop, Q!Walker, ListPlaces, ExpressionPlaces, BodyPlaces
    <2>9. QuotesOn(p, x)
      BY <2>2, <2>7, <2>8 DEF QuotesOn
    <2>10. QED
      BY <2>3, <2>6, <2>9 DEF Moves
  <1>8. ASSUME Last(p.deep) = "parent", arc = Closes(p, KeyWord(p), "keyed")
        PROVE  Moves(p, x)
    <2>1. x = Symbol(")", KeyWord(p), "keyed", Front(p.deep), p.column, << >>)
      BY <1>8 DEF Closes, Arc
    <2>2. /\ x.word = ")" /\ x.role = KeyWord(p) /\ x.at = "keyed"
          /\ x.deep = Front(p.deep) /\ x.column = p.column /\ x.body = << >>
      BY <2>1 DEF Symbol
    <2>3. x \in Symbols /\ Placed(x)
      <3>1. Settled(x)
        BY <2>2, <1>2, <1>3, <1>8
           DEF Settled, Titles, ColumnPlaces, ConstraintPlaces, EntryPlaces
      <3>2. x \in Symbols
        BY <2>1, <2>2, <1>2, <1>3, <1>8
           DEF Symbol, Symbols, Places, EntryPlaces, Roles, Words, KeyWord, KeyName
      <3>3. QED
        BY <2>2, <1>2, <1>3, <1>8, <3>1, <3>2 DEF Placed
    <2>4. ASSUME NEW m, Masks(p, m)
          PROVE  /\ p.column = 0 => K!next(m, ")") = K!Loop(m, AfterList(p), 0, ")")
                 /\ p.column # 0 => K!next(m, ")") = K!Loop(m, "columnBody", 0, ")")
      <3>1. CASE p.column = 0
        BY <2>4, <3>1, <1>8, <1>2, <1>3, Deepens
           DEF Masks, K!next, K!copyParenList, K!columnBody, ListPlaces
      <3>2. CASE p.column # 0
        BY <2>4, <3>2, <1>8, <1>2, <1>3, Deepens
           DEF Masks, K!next, K!copyParenList, K!columnBody, ListPlaces
      <3>3. QED
        BY <3>1, <3>2
    <2>5. ASSUME NEW m
          PROVE  /\ p.column = 0 => MasksTo(x, K!Loop(m, AfterList(p), 0, ")"), m, ")")
                 /\ p.column # 0 => MasksTo(x, K!Loop(m, "columnBody", 0, ")"), m, ")")
      BY <2>2, <1>2, <1>3, <1>8
         DEF MasksTo, Masks, InBody, InEntries, AfterList, K!Loop, K!Calling,
             K!Walker, ListPlaces, ExpressionPlaces, BodyPlaces
    <2>6. MasksOn(p, x)
      BY <2>2, <2>4, <2>5 DEF MasksOn
    <2>7. ASSUME NEW q, Quotes(p, q)
          PROVE  Q!next(q, ")") = Q!Past(q, AfterList(p), ")")
      BY <2>7, <1>8, <1>2, <1>3, Deepens
         DEF Quotes, Q!next, Q!identList, Q!Punctuation, ListPlaces
    <2>8. ASSUME NEW q PROVE QuotesTo(x, Q!Past(q, AfterList(p), ")"), q)
      BY <2>2, <1>2, <1>3, <1>8
         DEF QuotesTo, Quotes, InQuotes, KeyWord, KeyName, InBody, InEntries,
             AfterList, Q!Past, Q!Loop, Q!Walker, ListPlaces, ExpressionPlaces,
             BodyPlaces
    <2>9. QuotesOn(p, x)
      BY <2>2, <2>7, <2>8 DEF QuotesOn
    <2>10. QED
      BY <2>3, <2>6, <2>9 DEF Moves
  <1>9. QED
    <2>1. arc \in More(p) => p.column = 0 /\ arc = Goes(p, 1, "comma", "word", "list")
      BY DEF More
    <2>2. Last(p.deep) = "keys" =>
            Listed(p) = {Goes(p, 1, "COLLATE", "word", "collation"), Closes(p, "word", "rest")}
      BY DEF Listed
    <2>3. Last(p.deep) = "children" => Listed(p) = {Closes(p, "word", "references")}
      BY DEF Listed
    <2>4. Last(p.deep) = "parent" => Listed(p) = {Closes(p, KeyWord(p), "keyed")}
      BY DEF Listed
    <2>5. Last(p.deep) \in {"keys", "children", "parent"}
      BY <1>2 DEF InList
    <2>6. QED
      BY <1>1, <1>4, <1>5, <1>6, <1>7, <1>8, <2>1, <2>2, <2>3, <2>4, <2>5

-----------------------------------------------------------------------------
(***************************************************************************)
(* Behind the columns and constraints themselves.                          *)
(***************************************************************************)
RestWords == {"comma", ")", "DEFAULT", "CHECK", "AS", "CONSTRAINT", "REFERENCES"}

(* What the masker's columnBody does, outside parentheses, with each word  *)
(* that can follow a column's definition.                                  *)
LEMMA BodyMasks ==
    ASSUME NEW m, m.depth = 0, NEW word
    PROVE  /\ word = "comma" => K!columnBody(m, word) = K!Loop(m, "entry", 1, word)
           /\ word = ")" => K!columnBody(m, word) = K!Past(m, "statements", word)
           /\ word \in {"DEFAULT", "CHECK", "AS"} =>
                 K!columnBody(m, word) = K!Calling(m, "maskParenClause", 0, "columnBody", word)
           /\ word \in {"CONSTRAINT", "REFERENCES"} =>
                 K!columnBody(m, word) = K!Loop(m, "columnBody", 0, word)
  <1>1. CASE word = "comma"
    BY <1>1, Deepens DEF K!columnBody, K!columnList
  <1>2. CASE word = ")"
    BY <1>2, Deepens DEF K!columnBody, K!columnList
  <1>3. CASE word \in {"DEFAULT", "CHECK", "AS"}
    BY <1>3 DEF K!columnBody
  <1>4. CASE word \in {"CONSTRAINT", "REFERENCES"}
    BY <1>4, Deepens DEF K!columnBody
  <1>5. QED
    BY <1>1, <1>2, <1>3, <1>4

(* Behind a CHECK of the table the masker waits for the end of the entry.  *)
LEMMA EntriesMask ==
    ASSUME NEW m, m.at = "columnList", m.depth = 1
    PROVE  /\ K!next(m, "comma") = K!Loop(m, "entry", 1, "comma")
           /\ K!next(m, ")") = K!Past(m, "statements", ")")
  <1>1. K!next(m, "comma") = K!columnList(m, 1, "comma") /\ K!next(m, ")") = K!columnList(m, 1, ")")
    BY DEF K!next
  <1>2. K!columnList(m, 1, "comma") = K!Loop(m, "entry", 1, "comma")
    BY Deepens DEF K!columnList
  <1>3. K!columnList(m, 1, ")") = K!Past(m, "statements", ")")
    BY Deepens DEF K!columnList
  <1>4. QED
    BY <1>1, <1>2, <1>3

(* Behind a definition the masker is in columnBody, or in columnList       *)
(* behind a CHECK of the table.                                            *)
LEMMA RestMasks ==
    ASSUME NEW p, p.at \in {"rest", "parented", "keyed"}, NEW m, Masks(p, m)
    PROVE  \/ m.depth = 0 /\ \A word \in RestWords : K!next(m, word) = K!columnBody(m, word)
           \/ InEntries(p, m)
  <1>1. \/ InBody(m) \/ InEntries(p, m)
        \/ m.at = "maskParenClause" /\ m.depth = 0 /\ m.then = "columnBody"
        \/ m.at = "parent" /\ m.depth = 0
    BY DEF Masks, BodyPlaces
  <1>2. CASE InBody(m)
    BY <1>2 DEF InBody, K!next, RestWords
  <1>3. CASE m.at = "maskParenClause" /\ m.depth = 0 /\ m.then = "columnBody"
    BY <1>3 DEF K!next, K!maskParenClause, RestWords
  <1>4. CASE m.at = "parent" /\ m.depth = 0
    BY <1>4 DEF K!next, K!foreignKeyParent, RestWords
  <1>5. QED
    BY <1>1, <1>2, <1>3, <1>4

(* What the quoter's columnBody does with each of these words.             *)
LEMMA BodyQuotes ==
    ASSUME NEW q, q.depth = 0, NEW word
    PROVE  /\ word = "comma" => Q!columnBody(q, word) = Q!Loop(q, "entry", 1, word)
           /\ word = ")" => Q!columnBody(q, word) = Q!Past(q, "statements", word)
           /\ word \in {"DEFAULT", "CHECK", "AS", "CONSTRAINT"} =>
                 Q!columnBody(q, word) = Q!Loop(q, "columnBody", 0, word)
           /\ word = "REFERENCES" => Q!columnBody(q, word) = Q!Past(q, "REFERENCES", word)
  <1>1. CASE word = "comma"
    BY <1>1, Deepens DEF Q!columnBody, Q!columnList
  <1>2. CASE word = ")"
    BY <1>2, Deepens DEF Q!columnBody, Q!columnList
  <1>3. CASE word \in {"DEFAULT", "CHECK", "AS", "CONSTRAINT"}
    BY <1>3, Deepens DEF Q!columnBody
  <1>4. CASE word = "REFERENCES"
    BY <1>4 DEF Q!columnBody
  <1>5. QED
    BY <1>1, <1>2, <1>3, <1>4

(* Behind a CHECK of the table the quoter waits for the end of the entry.  *)
LEMMA EntriesQuote ==
    ASSUME NEW q, q.at = "columnList", q.depth = 1
    PROVE  /\ Q!next(q, "comma") = Q!Loop(q, "entry", 1, "comma")
           /\ Q!next(q, ")") = Q!Past(q, "statements", ")")
  <1>1. Q!next(q, "comma") = Q!columnList(q, 1, "comma") /\ Q!next(q, ")") = Q!columnList(q, 1, ")")
    BY DEF Q!next
  <1>2. Q!columnList(q, 1, "comma") = Q!Loop(q, "entry", 1, "comma")
    BY Deepens DEF Q!columnList
  <1>3. Q!columnList(q, 1, ")") = Q!Past(q, "statements", ")")
    BY Deepens DEF Q!columnList
  <1>4. QED
    BY <1>1, <1>2, <1>3

(* Behind a definition the quoter is in columnBody, or in columnList       *)
(* behind a CHECK of the table.                                            *)
LEMMA RestQuotes ==
    ASSUME NEW p, p.at \in {"rest", "parented", "keyed"}, NEW q, Quotes(p, q)
    PROVE  \/ q.depth = 0 /\ \A word \in RestWords : Q!next(q, word) = Q!columnBody(q, word)
           \/ InEntries(p, q)
  <1>1. \/ InBody(q) \/ InEntries(p, q)
        \/ q.at = "parent" /\ q.depth = 0
    BY DEF Quotes, BodyPlaces
  <1>2. CASE InBody(q)
    BY <1>2 DEF InBody, Q!next, RestWords
  <1>3. CASE q.at = "parent" /\ q.depth = 0
    BY <1>3 DEF Q!next, Q!referencesClause, RestWords
  <1>4. QED
    BY <1>1, <1>2, <1>3

(* What may follow a definition: another clause of the column, the next    *)
(* entry or the end of the list.                                           *)
LEMMA RestMovesOn ==
    ASSUME NEW p, p.at \in {"rest", "parented", "keyed"}, p.column \in Nat, p.deep = << >>,
           NEW arc \in Rest(p)
    PROVE  Moves(p, arc.is)
  <1> DEFINE x == arc.is
  <1>1. p.at \in {"rest", "parented", "keyed"} /\ p.column \in Nat /\ p.deep = << >>
    OBVIOUS
  <1>2. ASSUME p.column # 0, arc = Goes(p, 1, "DEFAULT", "word", "default")
        PROVE  Moves(p, x)
    <2>1. x = Symbol("DEFAULT", "word", "default", p.deep, p.column, << >>)
      BY <1>2 DEF Goes, Arc
    <2>2. /\ x.word = "DEFAULT" /\ x.role = "word" /\ x.at = "default"
          /\ x.deep = p.deep /\ x.column = p.column /\ x.body = << >>
      BY <2>1 DEF Symbol
    <2>3. x \in Symbols /\ Placed(x)
      <3>1. Settled(x)
        BY <2>2, <1>1, <1>2
           DEF Settled, Titles, ColumnPlaces, ConstraintPlaces, EntryPlaces
      <3>2. x \in Symbols
        BY <2>1, <2>2, <1>1, <1>2
           DEF Symbol, Symbols, Places, ColumnPlaces, Roles, Words
      <3>3. QED
        BY <2>2, <1>1, <1>2, <3>1, <3>2 DEF Placed
    <2>4. ASSUME NEW m, Masks(p, m)
          PROVE  K!next(m, "DEFAULT") = K!Calling(m, "maskParenClause", 0, "columnBody", "DEFAULT")
      <3>1. m.depth = 0 /\ K!next(m, "DEFAULT") = K!columnBody(m, "DEFAULT")
        BY <2>4, <1>2, <1>1, RestMasks DEF InEntries, RestWords
      <3>2. QED
        BY <3>1, BodyMasks
    <2>5. ASSUME NEW m
          PROVE  MasksTo(x, K!Calling(m, "maskParenClause", 0, "columnBody", "DEFAULT"), m, "DEFAULT")
      BY <2>2, <1>1, <1>2
         DEF MasksTo, Masks, InBody, InEntries, AfterBody, K!Calling, K!Walker,
             ListPlaces, ExpressionPlaces, BodyPlaces
    <2>6. MasksOn(p, x)
      BY <2>2, <2>4, <2>5 DEF MasksOn
    <2>7. ASSUME NEW q, Quotes(p, q)
          PROVE  Q!next(q, "DEFAULT") = Q!Loop(q, "columnBody", 0, "DEFAULT")
      <3>1. q.depth = 0 /\ Q!next(q, "DEFAULT") = Q!columnBody(q, "DEFAULT")
        BY <2>7, <1>2, <1>1, RestQuotes DEF InEntries, RestWords
      <3>2. QED
        BY <3>1, BodyQuotes
    <2>8. ASSUME NEW q PROVE QuotesTo(x, Q!Loop(q, "columnBody", 0, "DEFAULT"), q)
      BY <2>2, <1>1, <1>2
         DEF QuotesTo, Quotes, InQuotes, InBody, InEntries, AfterBody, Q!Loop,
             Q!Walker, ListPlaces, ExpressionPlaces, BodyPlaces
    <2>9. QuotesOn(p, x)
      BY <2>2, <2>7, <2>8 DEF QuotesOn
    <2>10. QED
      BY <2>3, <2>6, <2>9 DEF Moves
  <1>3. ASSUME p.column # 0, arc = Goes(p, 1, "CHECK", "word", "expression")
        PROVE  Moves(p, x)
    <2>1. x = Symbol("CHECK", "word", "expression", p.deep, p.column, << >>)
      BY <1>3 DEF Goes, Arc
    <2>2. /\ x.word = "CHECK" /\ x.role = "word" /\ x.at = "expression"
          /\ x.deep = p.deep /\ x.column = p.column /\ x.body = << >>
      BY <2>1 DEF Symbol
    <2>3. x \in Symbols /\ Placed(x)
      <3>1. Settled(x)
        BY <2>2, <1>1, <1>3
           DEF Settled, Titles, ColumnPlaces, ConstraintPlaces, EntryPlaces
      <3>2. x \in Symbols
        BY <2>1, <2>2, <1>1, <1>3
           DEF Symbol, Symbols, Places, EntryPlaces, Roles, Words
      <3>3. QED
        BY <2>2, <1>1, <1>3, <3>1, <3>2 DEF Placed
    <2>4. ASSUME NEW m, Masks(p, m)
          PROVE  K!next(m, "CHECK") = K!Calling(m, "maskParenClause", 0, "columnBody", "CHECK")
      <3>1. m.depth = 0 /\ K!next(m, "CHECK") = K!columnBody(m, "CHECK")
        BY <2>4, <1>3, <1>1, RestMasks DEF InEntries, RestWords
      <3>2. QED
        BY <3>1, BodyMasks
    <2>5. ASSUME NEW m
          PROVE  MasksTo(x, K!Calling(m, "maskParenClause", 0, "columnBody", "CHECK"), m, "CHECK")
      BY <2>2, <1>1, <1>3
         DEF MasksTo, Masks, InBody, InEntries, AfterBody, K!Calling, K!Walker,
             ListPlaces, ExpressionPlaces, BodyPlaces
    <2>6. MasksOn(p, x)
      BY <2>2, <2>4, <2>5 DEF MasksOn
    <2>7. ASSUME NEW q, Quotes(p, q)
          PROVE  Q!next(q, "CHECK") = Q!Loop(q, "columnBody", 0, "CHECK")
      <3>1. q.depth = 0 /\ Q!next(q, "CHECK") = Q!columnBody(q, "CHECK")
        BY <2>7, <1>3, <1>1, RestQuotes DEF InEntries, RestWords
      <3>2. QED
        BY <3>1, BodyQuotes
    <2>8. ASSUME NEW q PROVE QuotesTo(x, Q!Loop(q, "columnBody", 0, "CHECK"), q)
      BY <2>2, <1>1, <1>3
         DEF QuotesTo, Quotes, InQuotes, InBody, InEntries, AfterBody, Q!Loop,
             Q!Walker, ListPlaces, ExpressionPlaces, BodyPlaces
    <2>9. QuotesOn(p, x)
      BY <2>2, <2>7, <2>8 DEF QuotesOn
    <2>10. QED
      BY <2>3, <2>6, <2>9 DEF Moves
  <1>4. ASSUME p.column # 0, arc = Goes(p, 1, "AS", "word", "expression")
        PROVE  Moves(p, x)
    <2>1. x = Symbol("AS", "word", "expression", p.deep, p.column, << >>)
      BY <1>4 DEF Goes, Arc
    <2>2. /\ x.word = "AS" /\ x.role = "word" /\ x.at = "expression"
          /\ x.deep = p.deep /\ x.column = p.column /\ x.body = << >>
      BY <2>1 DEF Symbol
    <2>3. x \in Symbols /\ Placed(x)
      <3>1. Settled(x)
        BY <2>2, <1>1, <1>4
           DEF Settled, Titles, ColumnPlaces, ConstraintPlaces, EntryPlaces
      <3>2. x \in Symbols
        BY <2>1, <2>2, <1>1, <1>4
           DEF Symbol, Symbols, Places, EntryPlaces, Roles, Words
      <3>3. QED
        BY <2>2, <1>1, <1>4, <3>1, <3>2 DEF Placed
    <2>4. ASSUME NEW m, Masks(p, m)
          PROVE  K!next(m, "AS") = K!Calling(m, "maskParenClause", 0, "columnBody", "AS")
      <3>1. m.depth = 0 /\ K!next(m, "AS") = K!columnBody(m, "AS")
        BY <2>4, <1>4, <1>1, RestMasks DEF InEntries, RestWords
      <3>2. QED
        BY <3>1, BodyMasks
    <2>5. ASSUME NEW m
          PROVE  MasksTo(x, K!Calling(m, "maskParenClause", 0, "columnBody", "AS"), m, "AS")
      BY <2>2, <1>1, <1>4
         DEF MasksTo, Masks, InBody, InEntries, AfterBody, K!Calling, K!Walker,
             ListPlaces, ExpressionPlaces, BodyPlaces
    <2>6. MasksOn(p, x)
      BY <2>2, <2>4, <2>5 DEF MasksOn
    <2>7. ASSUME NEW q, Quotes(p, q)
          PROVE  Q!next(q, "AS") = Q!Loop(q, "columnBody", 0, "AS")
      <3>1. q.depth = 0 /\ Q!next(q, "AS") = Q!columnBody(q, "AS")
        BY <2>7, <1>4, <1>1, RestQuotes DEF InEntries, RestWords
      <3>2. QED
        BY <3>1, BodyQuotes
    <2>8. ASSUME NEW q PROVE QuotesTo(x, Q!Loop(q, "columnBody", 0, "AS"), q)
      BY <2>2, <1>1, <1>4
         DEF QuotesTo, Quotes, InQuotes, InBody, InEntries, AfterBody, Q!Loop,
             Q!Walker, ListPlaces, ExpressionPlaces, BodyPlaces
    <2>9. QuotesOn(p, x)
      BY <2>2, <2>7, <2>8 DEF QuotesOn
    <2>10. QED
      BY <2>3, <2>6, <2>9 DEF Moves
  <1>5. ASSUME p.column # 0, arc = Goes(p, 1, "CONSTRAINT", "word", "label")
        PROVE  Moves(p, x)
    <2>1. x = Symbol("CONSTRAINT", "word", "label", p.deep, p.column, << >>)
      BY <1>5 DEF Goes, Arc
    <2>2. /\ x.word = "CONSTRAINT" /\ x.role = "word" /\ x.at = "label"
          /\ x.deep = p.deep /\ x.column = p.column /\ x.body = << >>
      BY <2>1 DEF Symbol
    <2>3. x \in Symbols /\ Placed(x)
      <3>1. Settled(x)
        BY <2>2, <1>1, <1>5
           DEF Settled, Titles, ColumnPlaces, ConstraintPlaces, EntryPlaces
      <3>2. x \in Symbols
        BY <2>1, <2>2, <1>1, <1>5
           DEF Symbol, Symbols, Places, ColumnPlaces, Roles, Words
      <3>3. QED
        BY <2>2, <1>1, <1>5, <3>1, <3>2 DEF Placed
    <2>4. ASSUME NEW m, Masks(p, m)
          PROVE  K!next(m, "CONSTRAINT") = K!Loop(m, "columnBody", 0, "CONSTRAINT")
      <3>1. m.depth = 0 /\ K!next(m, "CONSTRAINT") = K!columnBody(m, "CONSTRAINT")
        BY <2>4, <1>5, <1>1, RestMasks DEF InEntries, RestWords
      <3>2. QED
        BY <3>1, BodyMasks
    <2>5. ASSUME NEW m
          PROVE  MasksTo(x, K!Loop(m, "columnBody", 0, "CONSTRAINT"), m, "CONSTRAINT")
      BY <2>2, <1>1, <1>5
         DEF MasksTo, Masks, InBody, InEntries, K!Loop, K!Calling, K!Walker,
             ListPlaces, ExpressionPlaces, BodyPlaces
    <2>6. MasksOn(p, x)
      BY <2>2, <2>4, <2>5 DEF MasksOn
    <2>7. ASSUME NEW q, Quotes(p, q)
          PROVE  Q!next(q, "CONSTRAINT") = Q!Loop(q, "columnBody", 0, "CONSTRAINT")
      <3>1. q.depth = 0 /\ Q!next(q, "CONSTRAINT") = Q!columnBody(q, "CONSTRAINT")
        BY <2>7, <1>5, <1>1, RestQuotes DEF InEntries, RestWords
      <3>2. QED
        BY <3>1, BodyQuotes
    <2>8. ASSUME NEW q
          PROVE  QuotesTo(x, Q!Loop(q, "columnBody", 0, "CONSTRAINT"), q)
      BY <2>2, <1>1, <1>5
         DEF QuotesTo, Quotes, InQuotes, InBody, InEntries, Q!Loop, Q!Walker,
             ListPlaces, ExpressionPlaces, BodyPlaces
    <2>9. QuotesOn(p, x)
      BY <2>2, <2>7, <2>8 DEF QuotesOn
    <2>10. QED
      BY <2>3, <2>6, <2>9 DEF Moves
  <1>6. ASSUME p.column # 0, arc = Goes(p, 1, "REFERENCES", "key", "parent")
        PROVE  Moves(p, x)
    <2>1. x = Symbol("REFERENCES", "key", "parent", p.deep, p.column, << >>)
      BY <1>6 DEF Goes, Arc
    <2>2. /\ x.word = "REFERENCES" /\ x.role = "key" /\ x.at = "parent"
          /\ x.deep = p.deep /\ x.column = p.column /\ x.body = << >>
      BY <2>1 DEF Symbol
    <2>3. x \in Symbols /\ Placed(x)
      <3>1. Settled(x)
        BY <2>2, <1>1, <1>6
           DEF Settled, Titles, ColumnPlaces, ConstraintPlaces, EntryPlaces
      <3>2. x \in Symbols
        BY <2>1, <2>2, <1>1, <1>6
           DEF Symbol, Symbols, Places, EntryPlaces, Roles, Words
      <3>3. QED
        BY <2>2, <1>1, <1>6, <3>1, <3>2 DEF Placed
    <2>4. ASSUME NEW m, Masks(p, m)
          PROVE  K!next(m, "REFERENCES") = K!Loop(m, "columnBody", 0, "REFERENCES")
      <3>1. m.depth = 0 /\ K!next(m, "REFERENCES") = K!columnBody(m, "REFERENCES")
        BY <2>4, <1>6, <1>1, RestMasks DEF InEntries, RestWords
      <3>2. QED
        BY <3>1, BodyMasks
    <2>5. ASSUME NEW m
          PROVE  MasksTo(x, K!Loop(m, "columnBody", 0, "REFERENCES"), m, "REFERENCES")
      BY <2>2, <1>1, <1>6
         DEF MasksTo, Masks, InBody, InEntries, K!Loop, K!Calling, K!Walker,
             ListPlaces, ExpressionPlaces, BodyPlaces
    <2>6. MasksOn(p, x)
      BY <2>2, <2>4, <2>5 DEF MasksOn
    <2>7. ASSUME NEW q, Quotes(p, q)
          PROVE  Q!next(q, "REFERENCES") = Q!Past(q, "REFERENCES", "REFERENCES")
      <3>1. q.depth = 0 /\ Q!next(q, "REFERENCES") = Q!columnBody(q, "REFERENCES")
        BY <2>7, <1>6, <1>1, RestQuotes DEF InEntries, RestWords
      <3>2. QED
        BY <3>1, BodyQuotes
    <2>8. ASSUME NEW q PROVE QuotesTo(x, Q!Past(q, "REFERENCES", "REFERENCES"), q)
      BY <2>2, <1>1, <1>6
         DEF QuotesTo, Quotes, InQuotes, InBody, InEntries, Q!Past, Q!Loop,
             Q!Walker, ListPlaces, ExpressionPlaces, BodyPlaces
    <2>9. QuotesOn(p, x)
      BY <2>2, <2>7, <2>8 DEF QuotesOn
    <2>10. QED
      BY <2>3, <2>6, <2>9 DEF Moves
  <1>7. ASSUME p.column # 0, arc = Ends(1, "comma", "column", p.column + 1)
        PROVE  Moves(p, x)
    <2>1. x = Symbol("comma", "end", "column", << >>, (p.column + 1), << >>)
      BY <1>7 DEF Ends, Arc
    <2>2. /\ x.word = "comma" /\ x.role = "end" /\ x.at = "column"
          /\ x.deep = << >> /\ x.column = (p.column + 1) /\ x.body = << >>
      BY <2>1 DEF Symbol
    <2>3. x \in Symbols /\ Placed(x)
      <3>1. Settled(x)
        BY <2>2, <1>1, <1>7
           DEF Settled, Titles, ColumnPlaces, ConstraintPlaces, EntryPlaces
      <3>2. x \in Symbols
        BY <2>1, <2>2, <1>1, <1>7
           DEF Symbol, Symbols, Places, ColumnPlaces, Roles, Words
      <3>3. QED
        BY <2>2, <1>1, <1>7, <3>1, <3>2 DEF Placed
    <2>4. ASSUME NEW m, Masks(p, m)
          PROVE  K!next(m, "comma") = K!Loop(m, "entry", 1, "comma")
      <3>1. m.depth = 0 /\ K!next(m, "comma") = K!columnBody(m, "comma")
        BY <2>4, <1>7, <1>1, RestMasks DEF InEntries, RestWords
      <3>2. QED
        BY <3>1, BodyMasks
    <2>5. ASSUME NEW m PROVE MasksTo(x, K!Loop(m, "entry", 1, "comma"), m, "comma")
      BY <2>2, <1>1, <1>7
         DEF MasksTo, Masks, InBody, InEntries, K!Loop, K!Calling, K!Walker,
             ListPlaces, ExpressionPlaces, BodyPlaces
    <2>6. MasksOn(p, x)
      BY <2>2, <2>4, <2>5 DEF MasksOn
    <2>7. ASSUME NEW q, Quotes(p, q)
          PROVE  Q!next(q, "comma") = Q!Loop(q, "entry", 1, "comma")
      <3>1. q.depth = 0 /\ Q!next(q, "comma") = Q!columnBody(q, "comma")
        BY <2>7, <1>7, <1>1, RestQuotes DEF InEntries, RestWords
      <3>2. QED
        BY <3>1, BodyQuotes
    <2>8. ASSUME NEW q PROVE QuotesTo(x, Q!Loop(q, "entry", 1, "comma"), q)
      BY <2>2, <1>1, <1>7
         DEF QuotesTo, Quotes, InQuotes, InBody, InEntries, Q!Loop, Q!Walker,
             ListPlaces, ExpressionPlaces, BodyPlaces
    <2>9. QuotesOn(p, x)
      BY <2>2, <2>7, <2>8 DEF QuotesOn
    <2>10. QED
      BY <2>3, <2>6, <2>9 DEF Moves
  <1>8. CASE arc = Ends(1, "comma", "constraint", 0)
    <2>1. x = Symbol("comma", "end", "constraint", << >>, 0, << >>)
      BY <1>8 DEF Ends, Arc
    <2>2. /\ x.word = "comma" /\ x.role = "end" /\ x.at = "constraint"
          /\ x.deep = << >> /\ x.column = 0 /\ x.body = << >>
      BY <2>1 DEF Symbol
    <2>3. x \in Symbols /\ Placed(x)
      <3>1. Settled(x)
        BY <2>2, <1>1
           DEF Settled, Titles, ColumnPlaces, ConstraintPlaces, EntryPlaces
      <3>2. x \in Symbols
        BY <2>1, <2>2, <1>1
           DEF Symbol, Symbols, Places, ConstraintPlaces, Roles, Words
      <3>3. QED
        BY <2>2, <1>1, <3>1, <3>2 DEF Placed
    <2>4. ASSUME NEW m, Masks(p, m)
          PROVE  K!next(m, "comma") = K!Loop(m, "entry", 1, "comma")
      <3>1. \/ m.depth = 0 /\ K!next(m, "comma") = K!columnBody(m, "comma")
            \/ m.at = "columnList" /\ m.depth = 1
        BY <2>4, <1>1, RestMasks DEF InEntries, RestWords
      <3>2. QED
        BY <3>1, BodyMasks, EntriesMask
    <2>5. ASSUME NEW m PROVE MasksTo(x, K!Loop(m, "entry", 1, "comma"), m, "comma")
      BY <2>2, <1>1
         DEF MasksTo, Masks, InBody, InEntries, K!Loop, K!Calling, K!Walker,
             ListPlaces, ExpressionPlaces, BodyPlaces
    <2>6. MasksOn(p, x)
      BY <2>2, <2>4, <2>5 DEF MasksOn
    <2>7. ASSUME NEW q, Quotes(p, q)
          PROVE  Q!next(q, "comma") = Q!Loop(q, "entry", 1, "comma")
      <3>1. \/ q.depth = 0 /\ Q!next(q, "comma") = Q!columnBody(q, "comma")
            \/ q.at = "columnList" /\ q.depth = 1
        BY <2>7, <1>1, RestQuotes DEF InEntries, RestWords
      <3>2. QED
        BY <3>1, BodyQuotes, EntriesQuote
    <2>8. ASSUME NEW q PROVE QuotesTo(x, Q!Loop(q, "entry", 1, "comma"), q)
      BY <2>2, <1>1
         DEF QuotesTo, Quotes, InQuotes, InBody, InEntries, Q!Loop, Q!Walker,
             ListPlaces, ExpressionPlaces, BodyPlaces
    <2>9. QuotesOn(p, x)
      BY <2>2, <2>7, <2>8 DEF QuotesOn
    <2>10. QED
      BY <2>3, <2>6, <2>9 DEF Moves
  <1>9. CASE arc = Ends(0, ")", "options", 0)
    <2>1. x = Symbol(")", "end", "options", << >>, 0, << >>)
      BY <1>9 DEF Ends, Arc
    <2>2. /\ x.word = ")" /\ x.role = "end" /\ x.at = "options"
          /\ x.deep = << >> /\ x.column = 0 /\ x.body = << >>
      BY <2>1 DEF Symbol
    <2>3. x \in Symbols /\ Placed(x)
      <3>1. Settled(x)
        BY <2>2, <1>1
           DEF Settled, Titles, ColumnPlaces, ConstraintPlaces, EntryPlaces
      <3>2. x \in Symbols
        BY <2>1, <2>2, <1>1 DEF Symbol, Symbols, Places, Titles, Roles, Words
      <3>3. QED
        BY <2>2, <1>1, <3>1, <3>2 DEF Placed
    <2>4. ASSUME NEW m, Masks(p, m)
          PROVE  K!next(m, ")") = K!Past(m, "statements", ")")
      <3>1. \/ m.depth = 0 /\ K!next(m, ")") = K!columnBody(m, ")")
            \/ m.at = "columnList" /\ m.depth = 1
        BY <2>4, <1>1, RestMasks DEF InEntries, RestWords
      <3>2. QED
        BY <3>1, BodyMasks, EntriesMask
    <2>5. ASSUME NEW m PROVE MasksTo(x, K!Past(m, "statements", ")"), m, ")")
      BY <2>2, <1>1
         DEF MasksTo, Masks, InBody, InEntries, K!Past, K!Loop, K!Calling, K!Walker,
             ListPlaces, ExpressionPlaces, BodyPlaces
    <2>6. MasksOn(p, x)
      BY <2>2, <2>4, <2>5 DEF MasksOn
    <2>7. ASSUME NEW q, Quotes(p, q)
          PROVE  Q!next(q, ")") = Q!Past(q, "statements", ")")
      <3>1. \/ q.depth = 0 /\ Q!next(q, ")") = Q!columnBody(q, ")")
            \/ q.at = "columnList" /\ q.depth = 1
        BY <2>7, <1>1, RestQuotes DEF InEntries, RestWords
      <3>2. QED
        BY <3>1, BodyQuotes, EntriesQuote
    <2>8. ASSUME NEW q PROVE QuotesTo(x, Q!Past(q, "statements", ")"), q)
      BY <2>2, <1>1
         DEF QuotesTo, Quotes, InQuotes, InBody, InEntries, Q!Past, Q!Loop,
             Q!Walker, ListPlaces, ExpressionPlaces, BodyPlaces
    <2>9. QuotesOn(p, x)
      BY <2>2, <2>7, <2>8 DEF QuotesOn
    <2>10. QED
      BY <2>3, <2>6, <2>9 DEF Moves
  <1>10. QED
    BY <1>2, <1>3, <1>4, <1>5, <1>6, <1>7, <1>8, <1>9 DEF Rest, Clauses, End

LEMMA RestMoves ==
    ASSUME NEW p, Placed(p), p.at = "rest", NEW arc \in From(p)
    PROVE  Moves(p, arc.is)
  <1>1. From(p) = Rest(p)
    BY DEF From
  <1>2. p.column \in Nat /\ p.deep = << >>
    BY Outside DEF ListPlaces, ExpressionPlaces
  <1>3. QED
    BY <1>1, <1>2, RestMovesOn

LEMMA ParentedMoves ==
    ASSUME NEW p, Placed(p), p.at = "parented", NEW arc \in From(p)
    PROVE  Moves(p, arc.is)
  <1> DEFINE x == arc.is
  <1>1. From(p) = {Opens(p, "(", KeyWord(p), "list", "parent")} \cup Rest(p)
    BY DEF From
  <1>2. p.at = "parented" /\ p.column \in Nat /\ p.deep = << >>
    BY Outside DEF ListPlaces, ExpressionPlaces
  <1>3. CASE arc = Opens(p, "(", KeyWord(p), "list", "parent")
    <2>1. x = Symbol("(", KeyWord(p), "list", Append(p.deep, "parent"), p.column, << >>)
      BY <1>3 DEF Opens, Arc
    <2>2. /\ x.word = "(" /\ x.role = KeyWord(p) /\ x.at = "list"
          /\ x.deep = Append(p.deep, "parent") /\ x.column = p.column /\ x.body = << >>
      BY <2>1 DEF Symbol
    <2>3. x.deep \in Seq(Whats) /\ Len(x.deep) = 1 /\ Last(x.deep) = "parent"
      BY <2>2, <1>2, OneDeep DEF Whats
    <2>4. x \in Symbols /\ Placed(x)
      <3>1. InList(x)
        BY <2>2, <2>3, <1>2 DEF InList
      <3>2. x \in Symbols
        BY <2>1, <2>2, <1>2, <3>1
           DEF Symbol, Symbols, Places, ListPlaces, Roles, Words, InList, KeyWord,
               KeyName
      <3>3. QED
        BY <2>2, <1>2, <3>1, <3>2 DEF Placed, ListPlaces
    <2>5. ASSUME NEW m, Masks(p, m)
          PROVE  /\ p.column = 0 => K!next(m, "(") = K!Calling(m, "copyParenList", 1, "columnBody", "(")
                 /\ p.column # 0 => K!next(m, "(") = K!Loop(m, "columnBody", 1, "(")
      <3>1. CASE p.column = 0
        BY <2>5, <3>1, <1>2 DEF Masks, K!next, K!foreignKeyParent, K!beginList
      <3>2. CASE p.column # 0
        BY <2>5, <3>2, <1>2, Deepens DEF Masks, K!next, K!columnBody, InBody
      <3>3. QED
        BY <3>1, <3>2
    <2>6. ASSUME NEW m
          PROVE  /\ p.column = 0 => MasksTo(x, K!Calling(m, "copyParenList", 1, "columnBody", "("), m, "(")
                 /\ p.column # 0 => MasksTo(x, K!Loop(m, "columnBody", 1, "("), m, "(")
      BY <2>2, <2>3, <1>2
         DEF MasksTo, Masks, InBody, InEntries, AfterList, K!Calling, K!Walker,
             K!Loop, ListPlaces, ExpressionPlaces, BodyPlaces
    <2>7. MasksOn(p, x)
      BY <2>2, <2>5, <2>6 DEF MasksOn
    <2>8. ASSUME NEW q, Quotes(p, q)
          PROVE  Q!next(q, "(") = Q!Walker("ident", 1, "columnBody", Append(q.out, "("))
      BY <2>8, <1>2 DEF Quotes, Q!next, Q!referencesClause, Q!beginList
    <2>9. ASSUME NEW q
          PROVE  QuotesTo(x, Q!Walker("ident", 1, "columnBody", Append(q.out, "(")), q)
      BY <2>2, <2>3, <1>2
         DEF QuotesTo, Quotes, InQuotes, KeyWord, KeyName, InBody, InEntries,
             AfterList, Q!Walker, ListPlaces, ExpressionPlaces, BodyPlaces
    <2>10. QuotesOn(p, x)
      BY <2>2, <2>8, <2>9 DEF QuotesOn
    <2>11. QED
      BY <2>4, <2>7, <2>10 DEF Moves
  <1>4. QED
    BY <1>1, <1>2, <1>3, RestMovesOn

LEMMA KeyedMoves ==
    ASSUME NEW p, Placed(p), p.at = "keyed", NEW arc \in From(p)
    PROVE  Moves(p, arc.is)
  <1> DEFINE x == arc.is
  <1>1. From(p) = {Goes(p, 0, "SET", KeyWord(p), "set")} \cup Rest(p)
    BY DEF From
  <1>2. p.at = "keyed" /\ p.column \in Nat /\ p.deep = << >>
    BY Outside DEF ListPlaces, ExpressionPlaces
  <1>3. CASE arc = Goes(p, 0, "SET", KeyWord(p), "set")
    <2>1. x = Symbol("SET", KeyWord(p), "set", p.deep, p.column, << >>)
      BY <1>3 DEF Goes, Arc
    <2>2. /\ x.word = "SET" /\ x.role = KeyWord(p) /\ x.at = "set"
          /\ x.deep = p.deep /\ x.column = p.column /\ x.body = << >>
      BY <2>1 DEF Symbol
    <2>3. x \in Symbols /\ Placed(x)
      <3>1. Settled(x)
        BY <2>2, <1>2
           DEF Settled, Titles, ColumnPlaces, ConstraintPlaces, EntryPlaces
      <3>2. x \in Symbols
        BY <2>1, <2>2, <1>2
           DEF Symbol, Symbols, Places, EntryPlaces, Roles, Words, KeyWord, KeyName
      <3>3. QED
        BY <2>2, <1>2, <3>1, <3>2 DEF Placed
    <2>4. ASSUME NEW m, Masks(p, m)
          PROVE  K!next(m, "SET") = K!Loop(m, "columnBody", 0, "SET")
      BY <2>4, <1>2, Deepens DEF Masks, K!next, K!columnBody, InBody, BodyPlaces
    <2>5. ASSUME NEW m PROVE MasksTo(x, K!Loop(m, "columnBody", 0, "SET"), m, "SET")
      BY <2>2, <1>2
         DEF MasksTo, Masks, InBody, InEntries, K!Loop, K!Calling, K!Walker,
             ListPlaces, ExpressionPlaces, BodyPlaces
    <2>6. MasksOn(p, x)
      BY <2>2, <2>4, <2>5 DEF MasksOn
    <2>7. ASSUME NEW q, Quotes(p, q)
          PROVE  Q!next(q, "SET") = Q!Loop(q, "columnBody", 0, "SET")
      BY <2>7, <1>2, Deepens DEF Quotes, Q!next, Q!columnBody, InBody, BodyPlaces
    <2>8. ASSUME NEW q PROVE QuotesTo(x, Q!Loop(q, "columnBody", 0, "SET"), q)
      BY <2>2, <1>2
         DEF QuotesTo, Quotes, InQuotes, KeyWord, KeyName, InBody, InEntries,
             Q!Loop, Q!Walker, ListPlaces, ExpressionPlaces, BodyPlaces
    <2>9. QuotesOn(p, x)
      BY <2>2, <2>7, <2>8 DEF QuotesOn
    <2>10. QED
      BY <2>3, <2>6, <2>9 DEF Moves
  <1>4. QED
    BY <1>1, <1>2, <1>3, RestMovesOn

(* Space is copied where it is, and changes nothing else.                  *)
LEMMA SpaceMoves ==
    ASSUME NEW p, Placed(p), p.at \notin ExpressionPlaces, NEW arc \in Space(p)
    PROVE  Moves(p, arc.is)
  <1> DEFINE x == arc.is
  <1>1. p.at \in Places /\ p.at \notin {"create", "ended"} /\ p.column \in Nat
    BY DEF Placed, Settled, Places, Space
  <1>2. /\ ~Inside(p) /\ p.deep \in Seq(Whats)
        /\ \/ p.deep = << >> /\ Settled(p)
           \/ p.at \in ListPlaces /\ InList(p)
    <2>1. \/ p.deep = << >> /\ Settled(p)
          \/ p.at \in ListPlaces /\ InList(p)
      BY DEF Placed
    <2>2. CASE p.deep = << >> /\ Settled(p)
      BY <2>2 DEF Inside
    <2>3. CASE p.at \in ListPlaces /\ InList(p)
      <3>1. Last(p.deep) = p.deep[1]
        BY <2>3 DEF Last, InList
      <3>2. QED
        BY <2>3, <3>1 DEF Inside, InList
    <2>4. QED
      BY <2>1, <2>2, <2>3
  <1>3. x = Symbol("space", "word", p.at, p.deep, p.column, << >>)
    BY <1>1, <1>2 DEF Space, Goes, Arc
  <1>4. /\ x.word = "space" /\ x.role = "word" /\ x.at = p.at
        /\ x.deep = p.deep /\ x.column = p.column /\ x.body = << >>
    BY <1>3 DEF Symbol
  <1>5. x \in Symbols
    BY <1>1, <1>2, <1>3 DEF Symbol, Symbols, Roles, Words
  <1>6. Placed(x)
    BY <1>1, <1>2, <1>4 DEF Placed, Settled, InList
  <1>7. ASSUME NEW m, Masks(p, m)
        PROVE  K!next(m, "space") = K!Loop(m, m.at, m.depth, "space")
    <2>1. m.at # "body"
      BY <1>1, <1>7
         DEF Masks, Places, Titles, ColumnPlaces, ConstraintPlaces, EntryPlaces,
            ListPlaces, BodyPlaces, InBody, InEntries
    <2>2. QED
      BY <2>1 DEF K!next
  <1>8. MasksOn(p, x)
    <2>1. ASSUME NEW m, Masks(p, m)
          PROVE  LET n == K!Loop(m, m.at, m.depth, "space")
                 IN  Masks(x, n) /\ n.out = Append(m.out, "space") /\ n.bodies = m.bodies
      BY <1>4, <2>1
         DEF Masks, InBody, InEntries, AfterBody, AfterList, K!Loop, K!Calling,
             K!Walker
    <2>2. QED
      BY <1>4, <1>7, <2>1 DEF MasksOn, MasksTo
  <1>9. ASSUME NEW q, Quotes(p, q)
        PROVE  Q!next(q, "space") = Q!Loop(q, q.at, q.depth, "space")
    BY DEF Q!next
  <1>10. QuotesOn(p, x)
    <2>1. ASSUME NEW q, Quotes(p, q)
          PROVE  LET n == Q!Loop(q, q.at, q.depth, "space")
                 IN  Quotes(x, n) /\ n.out = Append(q.out, InQuotes(x))
      BY <1>4, <2>1
         DEF Quotes, InQuotes, InBody, InEntries, AfterList, Q!Loop, Q!Walker
    <2>2. QED
      BY <1>4, <1>9, <2>1 DEF QuotesOn, QuotesTo
  <1>11. QED
    BY <1>5, <1>6, <1>8, <1>10 DEF Moves

-----------------------------------------------------------------------------
(***************************************************************************)
(* Expressions.                                                            *)
(***************************************************************************)
(* A word of an expression: the masker keeps it back.                      *)
Hides(p, x) ==
    /\ x \in Symbols /\ Placed(x) /\ x.role = "body" /\ x.at \in ExpressionPlaces
    /\ x.column = p.column /\ x.body = Append(p.body, x.word)
    /\ \A m : Masks(p, m) =>
          K!next(m, x.word) = K!hideBody(m, x.word) /\ Masks(x, K!hideBody(m, x.word))

(* The parenthesis behind an expression.                                   *)
Shuts(p, x) ==
    /\ x \in Symbols /\ Placed(x) /\ x = Symbol(")", "close", "rest", << >>, p.column, p.body)
    /\ Balanced(p.body, 0)
    /\ \A m : Masks(p, m) =>
          /\ K!next(m, ")") = K!closeBody(m, ")") /\ m.body = p.body
          /\ m.then = AfterBody(p)

(* A word more changes the depth as the walkers count it.                  *)
LEMMA BalancedMore ==
    ASSUME NEW body \in Seq(Words), NEW word \in Words, NEW depth \in Nat, NEW inner \in Nat,
           Balanced(body, depth), inner = Q!Deeper(depth, word)
    PROVE  Balanced(Append(body, word), inner)
  <1> DEFINE n == Len(body)
             b == Append(body, word)
  <1>1. /\ n \in Nat /\ Len(b) = n + 1 /\ b[n + 1] = word
        /\ \A i \in 1 .. n : b[i] = body[i]
    OBVIOUS
  <1>2. PICK d \in [0 .. n -> Nat] :
           /\ d[0] = 0 /\ d[n] = depth
           /\ \A i \in 1 .. n : d[i] = Q!Deeper(d[i - 1], body[i])
    BY DEF Balanced
  <1> DEFINE e == [i \in 0 .. n + 1 |-> IF i = n + 1 THEN inner ELSE d[i]]
  <1>3. e \in [0 .. n + 1 -> Nat] /\ e[n + 1] = inner /\ e[0] = 0
    BY <1>1, <1>2
  <1>4. \A i \in 0 .. n : e[i] = d[i]
    BY <1>1
  <1> HIDE DEF e, n, b
  <1>5. ASSUME NEW i \in 1 .. n + 1 PROVE e[i] = Q!Deeper(e[i - 1], b[i])
    <2>1. CASE i = n + 1
      <3>1. i - 1 = n /\ n \in 0 .. n
        BY <1>1, <2>1
      <3>2. e[i - 1] = depth
        BY <1>2, <1>4, <3>1
      <3>3. QED
        BY <1>1, <1>3, <2>1, <3>2
    <2>2. CASE i # n + 1
      <3>1. i \in 1 .. n /\ i \in 0 .. n /\ i - 1 \in 0 .. n
        BY <1>1, <2>2
      <3>2. e[i] = d[i] /\ e[i - 1] = d[i - 1]
        BY <1>4, <3>1
      <3>3. d[i] = Q!Deeper(d[i - 1], body[i]) /\ b[i] = body[i]
        BY <1>1, <1>2, <3>1
      <3>4. QED
        BY <3>2, <3>3
    <2>3. QED
      BY <2>1, <2>2
  <1>6. \E f \in [0 .. n + 1 -> Nat] :
           f[0] = 0 /\ f[n + 1] = inner /\ \A i \in 1 .. n + 1 : f[i] = Q!Deeper(f[i - 1], b[i])
    BY <1>3, <1>5
  <1>7. QED
    BY <1>1, <1>6 DEF Balanced, b

(* In an expression the outermost parenthesis is that of the CHECK,        *)
(* DEFAULT or AS.                                                          *)
LEMMA InExpr ==
    ASSUME NEW p, Placed(p), p.at \in ExpressionPlaces
    PROVE  p.column \in Nat /\ InExpression(p) /\ Inside(p)
  BY DEF Placed, Settled, InExpression, Inside, Titles, ColumnPlaces,
         ConstraintPlaces, EntryPlaces,
         ListPlaces, ExpressionPlaces

(* The parenthesis a word leaves open.                                     *)
Nested(p, word, deep) ==
    \/ word \notin {"(", ")"} /\ deep = p.deep
    \/ word = "(" /\ \E what \in {"call", "cast"} : deep = Append(p.deep, what)
    \/ word = ")" /\ Len(p.deep) > 1 /\ deep = Front(p.deep)

(* A word of an expression opens or closes one of its own parentheses,     *)
(* never the expression's.                                                 *)
LEMMA DeepStays ==
    ASSUME NEW p, InExpression(p), NEW word, NEW deep, Nested(p, word, deep)
    PROVE  /\ deep \in Seq(Whats) /\ deep # << >> /\ deep[1] = "body"
           /\ \A i \in 2 .. Len(deep) : deep[i] \in {"call", "cast"}
           /\ Len(deep) = K!Deeper(Len(p.deep), word)
           /\ Len(deep) - 1 = Q!Deeper(Len(p.deep) - 1, word)
           /\ Len(deep) \in Nat \ {0}
  <1>1. /\ p.deep \in Seq(Whats) /\ p.deep # << >> /\ p.deep[1] = "body" /\ Len(p.deep) \in Nat \ {0}
        /\ \A i \in 2 .. Len(p.deep) : p.deep[i] \in {"call", "cast"}
    BY DEF InExpression
  <1>2. CASE word \notin {"(", ")"} /\ deep = p.deep
    BY <1>1, <1>2, Deepens
  <1>3. CASE word = "(" /\ \E what \in {"call", "cast"} : deep = Append(p.deep, what)
    <2>1. PICK what \in {"call", "cast"} : deep = Append(p.deep, what)
      BY <1>3
    <2>2. what \in Whats
      BY DEF Whats
    <2>3. deep \in Seq(Whats) /\ Len(deep) = Len(p.deep) + 1 /\ deep[Len(p.deep) + 1] = what
          /\ \A i \in 1 .. Len(p.deep) : deep[i] = p.deep[i]
      BY <1>1, <2>1, <2>2
    <2>4. K!Deeper(Len(p.deep), "(") = Len(p.deep) + 1
          /\ Q!Deeper(Len(p.deep) - 1, "(") = Len(p.deep) - 1 + 1
      BY DEF K!Deeper, Q!Deeper
    <2>5. \A i \in 2 .. Len(deep) : deep[i] \in {"call", "cast"}
      BY <1>1, <2>3
    <2>6. QED
      BY <1>1, <1>3, <2>3, <2>4, <2>5
  <1>4. CASE word = ")" /\ Len(p.deep) > 1 /\ deep = Front(p.deep)
    <2>1. deep = SubSeq(p.deep, 1, Len(p.deep) - 1)
      BY <1>4 DEF Front
    <2>2. deep \in Seq(Whats) /\ Len(deep) = Len(p.deep) - 1
          /\ \A i \in 1 .. Len(p.deep) - 1 : deep[i] = p.deep[i]
      BY <1>1, <1>4, <2>1
    <2>3. K!Deeper(Len(p.deep), ")") = Len(p.deep) - 1
          /\ Q!Deeper(Len(p.deep) - 1, ")") = Len(p.deep) - 1 - 1
      BY DEF K!Deeper, Q!Deeper
    <2>4. Len(deep) \in Nat \ {0} /\ deep # << >> /\ deep[1] = "body"
      BY <1>1, <1>4, <2>2
    <2>5. \A i \in 2 .. Len(deep) : deep[i] \in {"call", "cast"}
      BY <1>1, <2>2
    <2>6. Len(deep) = K!Deeper(Len(p.deep), word) /\ Len(deep) - 1 = Q!Deeper(Len(p.deep) - 1, word)
      BY <1>4, <2>2, <2>3
    <2>7. QED
      BY <2>2, <2>4, <2>5, <2>6
  <1>5. QED
    BY <1>2, <1>3, <1>4 DEF Nested

(* Each word the grammar has in an expression is one the masker keeps      *)
(* back.                                                                   *)
LEMMA SaysHides ==
    ASSUME NEW p, Placed(p), p.at \in ExpressionPlaces, NEW cost, NEW word \in Words,
           NEW at \in ExpressionPlaces, NEW deep, Nested(p, word, deep),
           at \in {"cast", "casted"} => Len(deep) > 1
    PROVE  Hides(p, Says(p, cost, word, at, deep).is)
  <1> DEFINE x == Says(p, cost, word, at, deep).is
  <1>1. x = Symbol(word, "body", at, deep, p.column, Append(p.body, word))
    BY DEF Says, Arc
  <1>2. /\ x.word = word /\ x.role = "body" /\ x.at = at /\ x.deep = deep
        /\ x.column = p.column /\ x.body = Append(p.body, word)
    BY <1>1 DEF Symbol
  <1>3. p.column \in Nat /\ InExpression(p) /\ p.body \in Seq(Words) /\ Balanced(p.body, Len(p.deep) - 1)
        /\ Len(p.deep) \in Nat \ {0}
    BY InExpr DEF InExpression
  <1>4. /\ deep \in Seq(Whats) /\ deep # << >> /\ deep[1] = "body"
        /\ \A i \in 2 .. Len(deep) : deep[i] \in {"call", "cast"}
        /\ Len(deep) = K!Deeper(Len(p.deep), word)
        /\ Len(deep) - 1 = Q!Deeper(Len(p.deep) - 1, word)
        /\ Len(deep) \in Nat \ {0}
    BY <1>3, DeepStays
  <1>5. Balanced(Append(p.body, word), Len(deep) - 1)
    <2>1. Len(p.deep) - 1 \in Nat /\ Len(deep) - 1 \in Nat
      BY <1>3, <1>4
    <2>2. QED
      BY <1>3, <1>4, <2>1, BalancedMore
  <1>6. InExpression(x)
    BY <1>2, <1>3, <1>4, <1>5 DEF InExpression
  <1>7. x \in Symbols
    BY <1>1, <1>3, <1>4 DEF Symbol, Symbols, Roles, Places
  <1>8. Placed(x)
    BY <1>2, <1>3, <1>6 DEF Placed
  <1>9. ASSUME NEW m, Masks(p, m)
        PROVE  K!next(m, word) = K!hideBody(m, word) /\ Masks(x, K!hideBody(m, word))
    <2>1. m.at = "body" /\ m.depth = Len(p.deep) /\ m.body = p.body /\ m.then = AfterBody(p)
      BY <1>9 DEF Masks
    <2>2. ~(word = ")" /\ m.depth = 1)
      <3>1. ASSUME word = ")" PROVE m.depth # 1
        <4>1. Len(p.deep) > 1
          BY <3>1 DEF Nested
        <4>2. Len(p.deep) # 1
          <5>1. \A n \in Nat : n > 1 => n # 1
            OBVIOUS
          <5>2. Len(p.deep) \in Nat
            BY <1>3
          <5>3. QED
            BY <4>1, <5>1, <5>2
        <4>3. QED
          BY <2>1, <4>2
      <3>2. QED
        BY <3>1
    <2>3. K!next(m, word) = K!hideBody(m, word)
      BY <2>1, <2>2 DEF K!next
    <2>4. K!hideBody(m, word) = K!Walker("body", Len(deep), m.then, m.out, Append(p.body, word), m.bodies)
      BY <1>4, <2>1 DEF K!hideBody
    <2>5. AfterBody(x) = AfterBody(p)
      BY <1>2 DEF AfterBody
    <2>6. Masks(x, K!Walker("body", Len(deep), m.then, m.out, Append(p.body, word), m.bodies))
      <3>1. x.at \in ExpressionPlaces
        BY <1>2
      <3>2. QED
        BY <1>2, <2>1, <2>5, <3>1
           DEF Masks, K!Walker, ExpressionPlaces, ListPlaces, BodyPlaces
    <2>7. QED
      BY <2>3, <2>4, <2>6
  <1>10. QED
    BY <1>2, <1>6, <1>7, <1>8, <1>9 DEF Hides

(* The innermost parenthesis is the expression's own exactly if it is the  *)
(* only one.                                                               *)
LEMMA Innermost ==
    ASSUME NEW p, InExpression(p)
    PROVE  /\ Len(p.deep) \in Nat \ {0}
           /\ Last(p.deep) = "body" => Len(p.deep) = 1
           /\ Last(p.deep) # "body" => Len(p.deep) > 1
           /\ Last(p.deep) \in {"body", "call", "cast"}
  <1>1. /\ p.deep \in Seq(Whats) /\ p.deep # << >> /\ p.deep[1] = "body" /\ Len(p.deep) \in Nat \ {0}
        /\ \A i \in 2 .. Len(p.deep) : p.deep[i] \in {"call", "cast"}
    BY DEF InExpression
  <1>2. Last(p.deep) = p.deep[Len(p.deep)]
    BY DEF Last
  <1>3. CASE Len(p.deep) = 1
    BY <1>1, <1>2, <1>3
  <1>4. CASE Len(p.deep) # 1
    <2>0. \A n \in Nat \ {0} : n # 1 => n \in 2 .. n /\ n > 1
      OBVIOUS
    <2>1. Len(p.deep) \in 2 .. Len(p.deep) /\ Len(p.deep) > 1
      BY <1>1, <1>4, <2>0
    <2>2. p.deep[Len(p.deep)] \in {"call", "cast"}
      BY <1>1, <2>1
    <2>3. QED
      BY <1>1, <1>2, <2>1, <2>2
  <1>5. QED
    BY <1>3, <1>4

(* What the operator Symbol makes is a symbol.                             *)
LEMMA SymbolIs ==
    ASSUME NEW word \in Words, NEW role \in Roles, NEW at \in Places, NEW deep \in Seq(Whats),
           NEW column \in Nat, NEW body \in Seq(Words)
    PROVE  Symbol(word, role, at, deep, column, body) \in Symbols
  BY DEF Symbol, Symbols

(* The parenthesis behind an expression is the one where the masker's      *)
(* depth comes back to zero: closeBody is called there, with the words of  *)
(* the whole expression.                                                   *)
LEMMA Shutting ==
    ASSUME NEW p, Placed(p), p.at \in ExpressionPlaces, Last(p.deep) = "body"
    PROVE  Shuts(p, Arc(0, Symbol(")", "close", "rest", << >>, p.column, p.body)).is)
  <1> DEFINE x == Arc(0, Symbol(")", "close", "rest", << >>, p.column, p.body)).is
  <1>1. x = Symbol(")", "close", "rest", << >>, p.column, p.body)
    BY DEF Arc
  <1>2. x.at = "rest" /\ x.deep = << >> /\ x.column = p.column
    BY <1>1 DEF Symbol
  <1>3. /\ p.column \in Nat /\ p.body \in Seq(Words) /\ Balanced(p.body, Len(p.deep) - 1)
        /\ Len(p.deep) = 1
    BY InExpr, Innermost DEF InExpression
  <1>4. Balanced(p.body, 0)
    <2>1. Len(p.deep) - 1 = 0
      BY <1>3
    <2>2. QED
      BY <1>3, <2>1
  <1>5. x \in Symbols
    <2>1. ")" \in Words /\ "close" \in Roles /\ "rest" \in Places /\ << >> \in Seq(Whats)
      BY DEF Roles, Words, Places, EntryPlaces
    <2>2. QED
      BY <1>1, <1>3, <2>1, SymbolIs
  <1>6. Placed(x)
    BY <1>2, <1>3 DEF Placed, Settled, EntryPlaces
  <1>7. ASSUME NEW m, Masks(p, m)
        PROVE  K!next(m, ")") = K!closeBody(m, ")") /\ m.body = p.body /\ m.then = AfterBody(p)
    <2>1. m.at = "body" /\ m.depth = 1 /\ m.body = p.body /\ m.then = AfterBody(p)
      BY <1>3, <1>7 DEF Masks
    <2>2. K!next(m, ")") = K!closeBody(m, ")")
      BY <2>1 DEF K!next
    <2>3. QED
      BY <2>1, <2>2
  <1>8. QED
    BY <1>1, <1>4, <1>5, <1>6, <1>7 DEF Shuts

(* In an expression every symbol is a word kept back or the parenthesis    *)
(* behind it: what a function's or a CAST's parentheses hold never ends    *)
(* it.                                                                     *)
LEMMA ExpressionGoesOn ==
    ASSUME NEW p, Placed(p), p.at \in ExpressionPlaces, NEW arc \in Arcs(p)
    PROVE  Hides(p, arc.is) \/ Shuts(p, arc.is)
  <1>1. /\ InExpression(p) /\ Inside(p)
        /\ Len(p.deep) \in Nat \ {0}
        /\ Last(p.deep) # "body" => Len(p.deep) > 1
        /\ Last(p.deep) \in {"body", "call", "cast"}
    BY InExpr, Innermost
  <1>2. ASSUME NEW cost, NEW word \in Words \ {"(", ")"}, NEW at \in {"expr", "operand", "function"}
        PROVE  Hides(p, Says(p, cost, word, at, p.deep).is)
    <2>1. Nested(p, word, p.deep) /\ at \in ExpressionPlaces /\ at \notin {"cast", "casted"}
      BY DEF Nested, ExpressionPlaces
    <2>2. QED
      BY <2>1, SaysHides
  <1>3. ASSUME NEW cost, NEW word \in Words \ {"(", ")"}, NEW at \in {"cast", "casted"}, Len(p.deep) > 1
        PROVE  Hides(p, Says(p, cost, word, at, p.deep).is)
    <2>1. Nested(p, word, p.deep) /\ at \in ExpressionPlaces
      BY DEF Nested, ExpressionPlaces
    <2>2. QED
      BY <1>3, <2>1, SaysHides
  <1>4. ASSUME Len(p.deep) > 1
        PROVE  Hides(p, Says(p, 0, ")", "operand", Front(p.deep)).is)
    <2>1. Nested(p, ")", Front(p.deep)) /\ "operand" \in ExpressionPlaces /\ ")" \in Words
      BY <1>4 DEF Nested, ExpressionPlaces, Words
    <2>2. QED
      BY <2>1, SaysHides
  <1>5. ASSUME NEW what \in {"call", "cast"}
        PROVE  Hides(p, Says(p, 0, "(", "expr", Append(p.deep, what)).is)
    <2>1. Nested(p, "(", Append(p.deep, what)) /\ "expr" \in ExpressionPlaces /\ "(" \in Words
      BY DEF Nested, ExpressionPlaces, Words
    <2>2. QED
      BY <2>1, SaysHides
  <1>6. {"plain", "name", "glob", "comma", "AS", "space"} \subseteq Words \ {"(", ")"}
    BY DEF Words
  <1>7. CASE arc \in Space(p)
    <2>1. arc = Says(p, 3, "space", p.at, p.deep)
      BY <1>1, <1>7 DEF Space
    <2>2. CASE p.at \in {"cast", "casted"}
      <3>1. Len(p.deep) > 1
        BY <1>1, <2>2 DEF InExpression
      <3>2. QED
        BY <1>3, <1>6, <2>1, <2>2, <3>1
    <2>3. CASE p.at \notin {"cast", "casted"}
      <3>1. p.at \in {"expr", "operand", "function"}
        BY <2>3 DEF ExpressionPlaces
      <3>2. QED
        BY <1>2, <1>6, <2>1, <3>1
    <2>4. QED
      BY <2>2, <2>3
  <1>8. CASE arc \in From(p) /\ p.at = "expr"
    <2>1. arc \in Operand(p)
      <3>1. From(p) = Operand(p)
        BY <1>8 DEF From
      <3>2. QED
        BY <1>8, <3>1
    <2>2. \/ arc = Says(p, 0, "plain", "operand", p.deep) \/ arc = Says(p, 0, "name", "operand", p.deep)
          \/ arc = Says(p, 1, "plain", "function", p.deep)
      BY <2>1 DEF Operand
    <2>3. QED
      BY <1>2, <1>6, <2>2
  <1>9. CASE arc \in From(p) /\ p.at = "operand"
    <2>1. From(p) = Operator(p)
      BY <1>9 DEF From
    <2>2. arc = Says(p, 1, "glob", "expr", p.deep) \/ arc \in Behind(p)
      BY <1>9, <2>1 DEF Operator
    <2>3. CASE arc = Says(p, 1, "glob", "expr", p.deep)
      BY <1>2, <1>6, <2>3
    <2>4. CASE arc \in Behind(p) /\ Last(p.deep) = "body"
      <3>1. Behind(p) = {Arc(0, Symbol(")", "close", "rest", << >>, p.column, p.body))}
        BY <2>4 DEF Behind
      <3>2. arc = Arc(0, Symbol(")", "close", "rest", << >>, p.column, p.body))
        BY <2>4, <3>1
      <3>3. QED
        BY <2>4, <3>2, Shutting
    <2>5. CASE arc \in Behind(p) /\ Last(p.deep) = "cast"
      <3>1. Behind(p) = {Says(p, 0, "AS", "cast", p.deep)}
        BY <2>5 DEF Behind
      <3>2. QED
        BY <1>1, <1>3, <1>6, <2>5, <3>1
    <2>6. CASE arc \in Behind(p) /\ Last(p.deep) = "call"
      <3>1. Behind(p) = {Says(p, 1, "comma", "expr", p.deep), Says(p, 0, ")", "operand", Front(p.deep))}
        BY <2>6 DEF Behind
      <3>2. CASE arc = Says(p, 1, "comma", "expr", p.deep)
        BY <1>2, <1>6, <3>2
      <3>3. CASE arc = Says(p, 0, ")", "operand", Front(p.deep))
        BY <1>1, <1>4, <2>6, <3>3
      <3>4. QED
        BY <2>6, <3>1, <3>2, <3>3
    <2>7. QED
      BY <1>1, <2>2, <2>3, <2>4, <2>5, <2>6
  <1>10. CASE arc \in From(p) /\ p.at = "function"
    <2>1. From(p) = {Says(p, 0, "(", "expr", Append(p.deep, what)) : what \in {"call", "cast"}}
      BY <1>10 DEF From
    <2>2. QED
      BY <1>5, <1>10, <2>1
  <1>11. CASE arc \in From(p) /\ p.at \in {"cast", "casted"}
    <2>1. Len(p.deep) > 1
      BY <1>1, <1>11 DEF InExpression
    <2>2. CASE p.at = "cast"
      <3>1. From(p) = {Says(p, 0, "plain", "casted", p.deep)}
        BY <2>2 DEF From
      <3>2. QED
        BY <1>3, <1>6, <1>11, <2>1, <3>1
    <2>3. CASE p.at = "casted"
      <3>1. From(p) = {Says(p, 0, ")", "operand", Front(p.deep))}
        BY <2>3 DEF From
      <3>2. QED
        BY <1>4, <1>11, <2>1, <3>1
    <2>4. QED
      BY <1>11, <2>2, <2>3
  <1>12. p.at \in {"expr", "operand", "function", "cast", "casted"}
    BY DEF ExpressionPlaces
  <1>13. QED
    BY <1>7, <1>8, <1>9, <1>10, <1>11, <1>12 DEF Arcs

(***************************************************************************)
(* What an arc does to columns and costs.                                  *)
(***************************************************************************)
(* A symbol or place that owes nothing yet, or one expression.             *)
DuePlaces == {"constraint", "name", "named", "default", "expression"} \cup ExpressionPlaces
Due(at) == IF at \in DuePlaces THEN 1 ELSE 0
Shut(role) == IF role = "close" THEN 1 ELSE 0

Early == {"create", "table", "title", "columns"}
AtRest == {"rest", "parented", "keyed"}

Plainly == {"word", "name", "key", "keyname", "end"}

Steers(p, x) ==
    \/ x.column = p.column /\ (x.at \in Early => p.at \in Early)
    \/ p.at = "columns" /\ x.column = 1 /\ x.at = "column"
    \/ p.at \in AtRest /\ \E arc \in End(p) : x = arc.is

Steady(p, arc) ==
    /\ arc.cost \in Nat
    /\ arc.is.role \in Plainly \/ p.at \in ExpressionPlaces
    /\ Due(arc.is.at) + Shut(arc.is.role) <= Due(p.at) + arc.cost
    /\ Steers(p, arc.is)
    /\ arc.is.column = 0 \/ p.at = "columns" \/ arc.is.column <= p.column + arc.cost

Staying(p, arc, cost, role, at) ==
    /\ arc.cost = cost /\ arc.is.role = role /\ arc.is.at = at /\ arc.is.column = p.column

(* A symbol in the same column, that begins no expression for nothing, is  *)
(* steady.                                                                 *)
LEMMA StayingIsSteady ==
    ASSUME NEW p, p.column \in Nat, NEW arc, NEW cost \in {0, 1, 3}, NEW role, NEW at,
           Staying(p, arc, cost, role, at),
           role \in Plainly \/ (p.at \in ExpressionPlaces /\ role = "body"),
           at \in DuePlaces => p.at \in DuePlaces \/ cost = 1,
           at \in Early => p.at \in Early
    PROVE  Steady(p, arc)
  <1>1. Shut(role) = 0
    BY DEF Shut, Plainly
  <1>2. Due(at) <= Due(p.at) + cost
    BY DEF Due
  <1>3. Due(at) \in {0, 1} /\ Due(p.at) \in {0, 1}
    BY DEF Due
  <1>4. Steers(p, arc.is)
    BY DEF Steers, Staying
  <1>5. arc.is.column <= p.column + arc.cost
    BY DEF Staying
  <1>6. QED
    BY <1>1, <1>2, <1>3, <1>4, <1>5 DEF Steady, Staying

(* Goes, Opens, Closes and Says stay in the column.                        *)
LEMMA GoesStays ==
    ASSUME NEW p, NEW cost, NEW word, NEW role, NEW at, NEW what
    PROVE  /\ Staying(p, Goes(p, cost, word, role, at), cost, role, at)
           /\ Staying(p, Opens(p, word, role, at, what), 0, role, at)
           /\ Staying(p, Closes(p, role, at), 0, role, at)
           /\ Staying(p, Says(p, cost, word, at, what), cost, "body", at)
  BY DEF Staying, Goes, Opens, Closes, Says, Arc, Symbol

(* The ends of an entry.                                                   *)
LEMMA EndIsSteady ==
    ASSUME NEW p, p.column \in Nat, p.at \in AtRest, NEW arc \in End(p)
    PROVE  Steady(p, arc)
  <1>1. \/ arc = Ends(1, "comma", "constraint", 0) \/ arc = Ends(0, ")", "options", 0)
        \/ p.column # 0 /\ arc = Ends(1, "comma", "column", p.column + 1)
    BY DEF End
  <1>2. Steers(p, arc.is)
    BY DEF Steers
  <1>3. Due("constraint") = 1 /\ Due("options") = 0 /\ Due("column") = 0 /\ Due(p.at) = 0
        /\ Shut("end") = 0
    BY DEF Due, Shut, DuePlaces, ExpressionPlaces, AtRest
  <1>4. arc.cost \in {0, 1} /\ arc.is.role = "end"
    BY <1>1 DEF Ends, Arc, Symbol
  <1>5. Due(arc.is.at) <= arc.cost
    BY <1>1, <1>3 DEF Ends, Arc, Symbol
  <1>6. arc.is.column = 0 \/ arc.is.column <= p.column + arc.cost
    BY <1>1 DEF Ends, Arc, Symbol
  <1>7. Due(arc.is.at) + Shut(arc.is.role) <= Due(p.at) + arc.cost
    <2>1. Due(arc.is.at) \in {0, 1}
      BY DEF Due
    <2>2. QED
      BY <1>3, <1>4, <1>5, <2>1
  <1>8. QED
    BY <1>2, <1>4, <1>6, <1>7 DEF Steady, Plainly

(* The parenthesis of the column list begins column 1.                     *)
LEMMA ColumnsAreSteady ==
    ASSUME NEW p, p.column \in Nat, p.at = "columns"
    PROVE  Steady(p, Ends(0, "(", "column", 1))
  <1>1. Due("column") = 0 /\ Due(p.at) = 0 /\ Shut("end") = 0
    BY DEF Due, Shut, DuePlaces, ExpressionPlaces
  <1>2. Steers(p, Ends(0, "(", "column", 1).is)
    BY DEF Steers, Ends, Arc, Symbol
  <1>3. QED
    BY <1>1, <1>2 DEF Steady, Ends, Arc, Symbol, Plainly

(* Whatever may stand at a place that has arcs of one kind.                *)
LEMMA GoesIsSteady ==
    ASSUME NEW p, p.column \in Nat, NEW cost \in {0, 1, 3}, NEW word, NEW role \in Plainly, NEW at,
           at \in DuePlaces => p.at \in DuePlaces \/ cost = 1,
           at \in Early => p.at \in Early
    PROVE  Steady(p, Goes(p, cost, word, role, at))
  <1> DEFINE arc == Goes(p, cost, word, role, at)
  <1>1. Staying(p, arc, cost, role, at)
    BY GoesStays
  <1> HIDE DEF arc
  <1>2. Steady(p, arc)
    BY <1>1, StayingIsSteady
  <1>3. QED
    BY <1>2 DEF arc

(* A parenthesis opened is steady where an expression was announced, or    *)
(* none begins.                                                            *)
LEMMA OpensIsSteady ==
    ASSUME NEW p, p.column \in Nat, NEW word, NEW role \in Plainly, NEW at, NEW what,
           at \in DuePlaces => p.at \in DuePlaces, at \notin Early
    PROVE  Steady(p, Opens(p, word, role, at, what))
  <1> DEFINE arc == Opens(p, word, role, at, what)
  <1>1. Staying(p, arc, 0, role, at)
    BY GoesStays
  <1> HIDE DEF arc
  <1>2. Steady(p, arc)
    BY <1>1, StayingIsSteady
  <1>3. QED
    BY <1>2 DEF arc

(* The parenthesis that closes a list is steady.                           *)
LEMMA ClosesIsSteady ==
    ASSUME NEW p, p.column \in Nat, NEW role \in Plainly, NEW at,
           at \notin DuePlaces, at \notin Early
    PROVE  Steady(p, Closes(p, role, at))
  <1> DEFINE arc == Closes(p, role, at)
  <1>1. Staying(p, arc, 0, role, at)
    BY GoesStays
  <1> HIDE DEF arc
  <1>2. Steady(p, arc)
    BY <1>1, StayingIsSteady
  <1>3. QED
    BY <1>2 DEF arc

(* A word of an expression is steady.                                      *)
LEMMA SaysIsSteady ==
    ASSUME NEW p, p.column \in Nat, NEW cost \in {0, 1, 3}, NEW word, NEW at, NEW deep,
           p.at \in ExpressionPlaces, at \in ExpressionPlaces
    PROVE  Steady(p, Says(p, cost, word, at, deep))
  <1>1. p.at \in DuePlaces /\ at \notin Early
    BY DEF DuePlaces, ExpressionPlaces, Early
  <1> DEFINE arc == Says(p, cost, word, at, deep)
  <1>2. Staying(p, arc, cost, "body", at)
    BY GoesStays
  <1> HIDE DEF arc
  <1>3. Steady(p, arc)
    BY <1>1, <1>2, StayingIsSteady
  <1>4. QED
    BY <1>3 DEF arc

(* KeyWord and KeyName are roles outside of expressions.                   *)
LEMMA KeyWords ==
    ASSUME NEW p
    PROVE  KeyWord(p) \in Plainly /\ KeyName(p) \in Plainly /\ {"word", "name", "key"} \subseteq Plainly
  BY DEF KeyWord, KeyName, Plainly

(* What may follow a definition is steady.                                 *)
LEMMA RestIsSteady ==
    ASSUME NEW p, p.column \in Nat, p.at \in AtRest, NEW arc \in Rest(p)
    PROVE  Steady(p, arc)
  <1>1. ASSUME NEW word, NEW role \in {"word", "key"}, NEW at \in {"default", "expression", "label", "parent"}
        PROVE  Steady(p, Goes(p, 1, word, role, at))
    BY GoesIsSteady, KeyWords DEF Early
  <1>2. CASE arc \in End(p)
    BY <1>2, EndIsSteady
  <1>3. CASE arc \in Clauses(p)
    BY <1>1, <1>3 DEF Clauses
  <1>4. QED
    BY <1>2, <1>3 DEF Rest

(* A constraint of the table is steady.                                    *)
LEMMA ConstraintIsSteady ==
    ASSUME NEW p, p.column \in Nat, p.at \in {"constraint", "named"}, NEW arc \in Constraint(p)
    PROVE  Steady(p, arc)
  <1>1. p.at \in DuePlaces
    BY DEF DuePlaces
  <1>2. ASSUME NEW word, NEW at \in {"primary", "keys", "expression", "foreign"}
        PROVE  Steady(p, Goes(p, 0, word, "word", at))
    BY <1>1, GoesIsSteady, KeyWords DEF Early
  <1>3. QED
    BY <1>2 DEF Constraint

(* A name is steady.                                                       *)
LEMMA IdIsSteady ==
    ASSUME NEW p, p.column \in Nat, NEW role \in Plainly, NEW at, at \notin DuePlaces,
           at \in Early => p.at \in Early, NEW arc \in Id(p, role, at)
    PROVE  Steady(p, arc)
  <1>1. PICK word : arc = Goes(p, IF word = "plain" THEN 0 ELSE 1, word, role, at)
    BY DEF Id
  <1>2. (IF word = "plain" THEN 0 ELSE 1) \in {0, 1, 3}
    OBVIOUS
  <1>3. QED
    BY <1>1, <1>2, GoesIsSteady

(* Every symbol stays in its column or begins the next one, and whatever   *)
(* begins a column or an expression has been paid for: this bounds the     *)
(* columns and the placeholders of a text by Budget.                       *)
LEMMA ArcsAreSteady ==
    ASSUME NEW p, Placed(p), NEW arc \in Arcs(p)
    PROVE  Steady(p, arc)
  <1>0. p.column \in Nat /\ p.at \in Places
    BY DEF Placed, Settled, Places
  <1>K. KeyWord(p) \in Plainly /\ KeyName(p) \in Plainly /\ {"word", "name", "key"} \subseteq Plainly
    BY KeyWords
  <1>S. CASE arc \in Space(p)
    <2>1. CASE Inside(p)
      <3>1. arc = Says(p, 3, "space", p.at, p.deep)
        BY <1>S, <2>1 DEF Space
      <3>2. p.at \in ExpressionPlaces
        <4>1. CASE p.deep = << >>
          BY <2>1, <4>1 DEF Inside
        <4>2. CASE p.at \in ListPlaces /\ InList(p)
          <5>1. Last(p.deep) = p.deep[1]
            BY <4>2 DEF Last, InList
          <5>2. QED
            BY <2>1, <4>2, <5>1 DEF Inside, InList
        <4>3. QED
          BY <4>1, <4>2 DEF Placed
      <3>3. QED
        BY <1>0, <3>1, <3>2, SaysIsSteady
    <2>2. CASE ~Inside(p)
      <3>1. arc = Goes(p, 3, "space", "word", p.at)
        BY <1>S, <2>2 DEF Space
      <3>2. QED
        BY <1>0, <1>K, <3>1, GoesIsSteady
    <2>3. QED
      BY <2>1, <2>2
  <1>1. CASE arc \in From(p) /\ p.at = "create"
    <2>1. arc = Goes(p, 0, "CREATE", "word", "table")
      BY <1>1 DEF From
    <2>2. QED
      BY <1>0, <1>K, <1>1, <2>1, GoesIsSteady DEF DuePlaces, ExpressionPlaces, Early
  <1>2. CASE arc \in From(p) /\ p.at = "table"
    <2>1. arc = Goes(p, 0, "TABLE", "word", "title")
      BY <1>2 DEF From
    <2>2. QED
      BY <1>0, <1>K, <1>2, <2>1, GoesIsSteady DEF DuePlaces, ExpressionPlaces, Early
  <1>3. CASE arc \in From(p) /\ p.at = "type"
    <2>1. arc = Goes(p, 0, "plain", "word", "rest")
      BY <1>3 DEF From
    <2>2. QED
      BY <1>0, <1>K, <1>3, <2>1, GoesIsSteady DEF DuePlaces, ExpressionPlaces, Early
  <1>4. CASE arc \in From(p) /\ p.at = "label"
    <2>1. arc = Goes(p, 0, "name", "word", "labelled")
      BY <1>4 DEF From
    <2>2. QED
      BY <1>0, <1>K, <1>4, <2>1, GoesIsSteady DEF DuePlaces, ExpressionPlaces, Early
  <1>5. CASE arc \in From(p) /\ p.at = "labelled"
    <2>1. arc = Goes(p, 0, "PRIMARY", "word", "inline")
      BY <1>5 DEF From
    <2>2. QED
      BY <1>0, <1>K, <1>5, <2>1, GoesIsSteady DEF DuePlaces, ExpressionPlaces, Early
  <1>6. CASE arc \in From(p) /\ p.at = "inline"
    <2>1. arc = Goes(p, 0, "KEY", "word", "rest")
      BY <1>6 DEF From
    <2>2. QED
      BY <1>0, <1>K, <1>6, <2>1, GoesIsSteady DEF DuePlaces, ExpressionPlaces, Early
  <1>7. CASE arc \in From(p) /\ p.at = "expression"
    <2>1. arc = Opens(p, "(", "word", "expr", "body")
      BY <1>7 DEF From
    <2>2. QED
      BY <1>0, <1>K, <1>7, <2>1, OpensIsSteady
         DEF DuePlaces, ExpressionPlaces, Early
  <1>8. CASE arc \in From(p) /\ p.at = "set"
    <2>1. arc = Goes(p, 0, "DEFAULT", KeyWord(p), "rest")
      BY <1>8 DEF From
    <2>2. QED
      BY <1>0, <1>K, <1>8, <2>1, GoesIsSteady DEF DuePlaces, ExpressionPlaces, Early
  <1>9. CASE arc \in From(p) /\ p.at = "name"
    <2>1. arc = Goes(p, 0, "KEY", "word", "named")
      BY <1>9 DEF From
    <2>2. QED
      BY <1>0, <1>K, <1>9, <2>1, GoesIsSteady DEF DuePlaces, ExpressionPlaces, Early
  <1>10. CASE arc \in From(p) /\ p.at = "primary"
    <2>1. arc = Goes(p, 0, "KEY", "word", "keys")
      BY <1>10 DEF From
    <2>2. QED
      BY <1>0, <1>K, <1>10, <2>1, GoesIsSteady
         DEF DuePlaces, ExpressionPlaces, Early
  <1>11. CASE arc \in From(p) /\ p.at = "keys"
    <2>1. arc = Opens(p, "(", "word", "list", "keys")
      BY <1>11 DEF From
    <2>2. QED
      BY <1>0, <1>K, <1>11, <2>1, OpensIsSteady
         DEF DuePlaces, ExpressionPlaces, Early
  <1>12. CASE arc \in From(p) /\ p.at = "foreign"
    <2>1. arc = Goes(p, 0, "KEY", "word", "children")
      BY <1>12 DEF From
    <2>2. QED
      BY <1>0, <1>K, <1>12, <2>1, GoesIsSteady
         DEF DuePlaces, ExpressionPlaces, Early
  <1>13. CASE arc \in From(p) /\ p.at = "children"
    <2>1. arc = Opens(p, "(", "word", "list", "children")
      BY <1>13 DEF From
    <2>2. QED
      BY <1>0, <1>K, <1>13, <2>1, OpensIsSteady
         DEF DuePlaces, ExpressionPlaces, Early
  <1>14. CASE arc \in From(p) /\ p.at = "collation"
    <2>1. arc = Goes(p, 0, "name", "word", "listed")
      BY <1>14 DEF From
    <2>2. QED
      BY <1>0, <1>K, <1>14, <2>1, GoesIsSteady
         DEF DuePlaces, ExpressionPlaces, Early
  <1>15. CASE arc \in From(p) /\ p.at = "references"
    <2>1. arc = Goes(p, 0, "REFERENCES", "word", "parent")
      BY <1>15 DEF From
    <2>2. QED
      BY <1>0, <1>K, <1>15, <2>1, GoesIsSteady
         DEF DuePlaces, ExpressionPlaces, Early
  <1>16. CASE arc \in From(p) /\ p.at = "cast"
    <2>1. arc = Says(p, 0, "plain", "casted", p.deep)
      BY <1>16 DEF From
    <2>2. QED
      BY <1>0, <1>K, <1>16, <2>1, SaysIsSteady
         DEF DuePlaces, ExpressionPlaces, Early
  <1>17. CASE arc \in From(p) /\ p.at = "casted"
    <2>1. arc = Says(p, 0, ")", "operand", Front(p.deep))
      BY <1>17 DEF From
    <2>2. QED
      BY <1>0, <1>K, <1>17, <2>1, SaysIsSteady
         DEF DuePlaces, ExpressionPlaces, Early
  <1>18. CASE arc \in From(p) /\ p.at = "options"
    <2>1. arc = Goes(p, 0, "plain", "word", "ended")
      BY <1>18 DEF From
    <2>2. QED
      BY <1>0, <1>K, <1>18, <2>1, GoesIsSteady
         DEF DuePlaces, ExpressionPlaces, Early
  <1>19. CASE arc \in From(p) /\ p.at = "title"
    <2>1. arc \in Id(p, "name", "columns")
      BY <1>19 DEF From
    <2>2. ("name") \in Plainly
      BY <1>K
    <2>3. "columns" \notin DuePlaces /\ ("columns" \in Early => p.at \in Early)
      BY <1>19 DEF DuePlaces, ExpressionPlaces, Early
    <2>4. QED
      BY <1>0, <2>1, <2>2, <2>3, IdIsSteady
  <1>20. CASE arc \in From(p) /\ p.at = "column"
    <2>1. arc \in Id(p, "name", "type")
      BY <1>20 DEF From
    <2>2. ("name") \in Plainly
      BY <1>K
    <2>3. "type" \notin DuePlaces /\ ("type" \in Early => p.at \in Early)
      BY <1>20 DEF DuePlaces, ExpressionPlaces, Early
    <2>4. QED
      BY <1>0, <2>1, <2>2, <2>3, IdIsSteady
  <1>21. CASE arc \in From(p) /\ p.at = "parent"
    <2>1. arc \in Id(p, KeyName(p), "parented")
      BY <1>21 DEF From
    <2>2. (KeyName(p)) \in Plainly
      BY <1>K
    <2>3. "parented" \notin DuePlaces /\ ("parented" \in Early => p.at \in Early)
      BY <1>21 DEF DuePlaces, ExpressionPlaces, Early
    <2>4. QED
      BY <1>0, <2>1, <2>2, <2>3, IdIsSteady
  <1>22. CASE arc \in From(p) /\ p.at = "list"
    <2>1. arc \in Id(p, IF Last(p.deep) = "parent" THEN KeyName(p) ELSE "name", "listed")
      BY <1>22 DEF From
    <2>2. (IF Last(p.deep) = "parent" THEN KeyName(p) ELSE "name") \in Plainly
      BY <1>K
    <2>3. "listed" \notin DuePlaces /\ ("listed" \in Early => p.at \in Early)
      BY <1>22 DEF DuePlaces, ExpressionPlaces, Early
    <2>4. QED
      BY <1>0, <2>1, <2>2, <2>3, IdIsSteady
  <1>23. CASE arc \in From(p) /\ p.at = "columns"
    <2>1. arc = Ends(0, "(", "column", 1)
      BY <1>23 DEF From
    <2>2. QED
      BY <1>0, <1>23, <2>1, ColumnsAreSteady
  <1>24. CASE arc \in From(p) /\ p.at = "rest"
    <2>1. arc \in Rest(p)
      BY <1>24 DEF From
    <2>2. QED
      BY <1>0, <1>24, <2>1, RestIsSteady DEF AtRest
  <1>25. CASE arc \in From(p) /\ p.at = "default"
    <2>1. arc = Goes(p, 0, "name", "word", "rest") \/ arc = Opens(p, "(", "word", "expr", "body")
      BY <1>25 DEF From
    <2>2. Steady(p, Goes(p, 0, "name", "word", "rest"))
      BY <1>0, <1>K, <1>25, GoesIsSteady DEF DuePlaces, ExpressionPlaces, Early
    <2>3. Steady(p, Opens(p, "(", "word", "expr", "body"))
      BY <1>0, <1>K, <1>25, OpensIsSteady DEF DuePlaces, ExpressionPlaces, Early
    <2>4. QED
      BY <2>1, <2>2, <2>3
  <1>26. CASE arc \in From(p) /\ p.at = "parented"
    <2>1. arc = Opens(p, "(", KeyWord(p), "list", "parent") \/ arc \in Rest(p)
      BY <1>26 DEF From
    <2>2. Steady(p, Opens(p, "(", KeyWord(p), "list", "parent"))
      BY <1>0, <1>K, <1>26, OpensIsSteady DEF DuePlaces, ExpressionPlaces, Early
    <2>3. QED
      BY <1>0, <1>26, <2>1, <2>2, RestIsSteady DEF AtRest
  <1>27. CASE arc \in From(p) /\ p.at = "keyed"
    <2>1. arc = Goes(p, 0, "SET", KeyWord(p), "set") \/ arc \in Rest(p)
      BY <1>27 DEF From
    <2>2. Steady(p, Goes(p, 0, "SET", KeyWord(p), "set"))
      BY <1>0, <1>K, <1>27, GoesIsSteady DEF DuePlaces, ExpressionPlaces, Early
    <2>3. QED
      BY <1>0, <1>27, <2>1, <2>2, RestIsSteady DEF AtRest
  <1>28. CASE arc \in From(p) /\ p.at = "constraint"
    <2>1. arc = Goes(p, 1, "CONSTRAINT", "word", "name") \/ arc \in Constraint(p)
      BY <1>28 DEF From
    <2>2. Steady(p, Goes(p, 1, "CONSTRAINT", "word", "name"))
      BY <1>0, <1>K, <1>28, GoesIsSteady DEF Early
    <2>3. QED
      BY <1>0, <1>28, <2>1, <2>2, ConstraintIsSteady
  <1>29. CASE arc \in From(p) /\ p.at = "named"
    <2>1. arc \in Constraint(p)
      BY <1>29 DEF From
    <2>2. QED
      BY <1>0, <1>29, <2>1, ConstraintIsSteady
  <1>30. CASE arc \in From(p) /\ p.at = "listed"
    <2>1. arc \in More(p) \/ arc \in Listed(p)
      BY <1>30 DEF From
    <2>2. arc \in More(p) => arc = Goes(p, 1, "comma", "word", "list")
      BY DEF More
    <2>3. Last(p.deep) \in {"keys", "children", "parent"}
      BY <1>30, Within DEF InList, ListPlaces
    <2>4. ASSUME arc \in Listed(p)
          PROVE  \/ arc = Goes(p, 1, "COLLATE", "word", "collation")
                 \/ \E role \in {"word", KeyWord(p)}, at \in {"rest", "references", "keyed"} :
                       arc = Closes(p, role, at)
      <3>1. CASE Last(p.deep) = "keys"
        BY <2>4, <3>1 DEF Listed
      <3>2. CASE Last(p.deep) = "children"
        BY <2>4, <3>2 DEF Listed
      <3>3. CASE Last(p.deep) = "parent"
        BY <2>4, <3>3 DEF Listed
      <3>4. QED
        BY <2>3, <3>1, <3>2, <3>3
    <2>5. ASSUME NEW word, NEW at \in {"list", "collation"}
          PROVE  Steady(p, Goes(p, 1, word, "word", at))
      BY <1>0, <1>K, GoesIsSteady DEF Early
    <2>6. ASSUME NEW role \in Plainly, NEW at \in {"rest", "references", "keyed"}
          PROVE  Steady(p, Closes(p, role, at))
      BY <1>0, ClosesIsSteady DEF DuePlaces, ExpressionPlaces, Early
    <2>7. QED
      BY <1>K, <2>1, <2>2, <2>4, <2>5, <2>6
  <1>31. CASE arc \in From(p) /\ p.at = "expr"
    <2>1. arc \in Operand(p)
      BY <1>31 DEF From
    <2>2. ASSUME NEW cost \in {0, 1}, NEW word, NEW at \in {"operand", "function"}
          PROVE  Steady(p, Says(p, cost, word, at, p.deep))
      BY <1>0, <1>31, SaysIsSteady DEF ExpressionPlaces
    <2>3. QED
      BY <2>1, <2>2 DEF Operand
  <1>32. CASE arc \in From(p) /\ p.at = "operand"
    <2>1. arc \in Operator(p)
      BY <1>32 DEF From
    <2>2. arc = Says(p, 1, "glob", "expr", p.deep) \/ arc \in Behind(p)
      BY <2>1 DEF Operator
    <2>3. ASSUME NEW cost \in {0, 1}, NEW word, NEW at \in ExpressionPlaces, NEW deep
          PROVE  Steady(p, Says(p, cost, word, at, deep))
      BY <1>0, <1>32, SaysIsSteady DEF ExpressionPlaces
    <2>4. "expr" \in ExpressionPlaces /\ "operand" \in ExpressionPlaces /\ "cast" \in ExpressionPlaces
      BY DEF ExpressionPlaces
    <2>5. CASE arc \in Behind(p) /\ Last(p.deep) = "body"
      <3>1. Behind(p) = {Arc(0, Symbol(")", "close", "rest", << >>, p.column, p.body))}
        BY <2>5 DEF Behind
      <3>2. arc = Arc(0, Symbol(")", "close", "rest", << >>, p.column, p.body))
        BY <2>5, <3>1
      <3>3. arc.cost = 0 /\ arc.is.role = "close" /\ arc.is.at = "rest" /\ arc.is.column = p.column
        BY <3>2 DEF Arc, Symbol
      <3>4. Due("rest") = 0 /\ Shut("close") = 1 /\ Due(p.at) = 1
        BY <1>32 DEF Due, Shut, DuePlaces, ExpressionPlaces
      <3>5. Steers(p, arc.is)
        BY <3>3 DEF Steers, Early
      <3>6. QED
        BY <1>0, <1>32, <3>3, <3>4, <3>5 DEF Steady, ExpressionPlaces
    <2>6. CASE arc \in Behind(p) /\ Last(p.deep) = "cast"
      <3>1. Behind(p) = {Says(p, 0, "AS", "cast", p.deep)}
        BY <2>6 DEF Behind
      <3>2. QED
        BY <2>3, <2>4, <2>6, <3>1
    <2>7. CASE arc \in Behind(p) /\ Last(p.deep) # "cast" /\ Last(p.deep) # "body"
      <3>1. Behind(p) = {Says(p, 1, "comma", "expr", p.deep), Says(p, 0, ")", "operand", Front(p.deep))}
        BY <2>7 DEF Behind
      <3>2. QED
        BY <2>3, <2>4, <2>7, <3>1
    <2>8. QED
      BY <2>2, <2>3, <2>4, <2>5, <2>6, <2>7
  <1>33. CASE arc \in From(p) /\ p.at = "function"
    <2>1. PICK what : arc = Says(p, 0, "(", "expr", Append(p.deep, what))
      BY <1>33 DEF From
    <2>2. QED
      BY <1>0, <1>33, <2>1, SaysIsSteady DEF ExpressionPlaces
  <1>34. CASE arc \in From(p) /\ p.at = "ended"
    BY <1>34 DEF From
  <1>L. QED
    BY <1>0, <1>S, <1>1, <1>2, <1>3, <1>4, <1>5, <1>6, <1>7, <1>8, <1>9, <1>10,
       <1>11, <1>12, <1>13, <1>14, <1>15, <1>16, <1>17, <1>18, <1>19, <1>20, <1>21,
       <1>22, <1>23, <1>24, <1>25, <1>26, <1>27, <1>28, <1>29, <1>30, <1>31, <1>32,
       <1>33, <1>34
       DEF Arcs, Places, Titles, ColumnPlaces, ConstraintPlaces, EntryPlaces, ListPlaces, ExpressionPlaces

-----------------------------------------------------------------------------
(***************************************************************************)
(* Every arc of the grammar.                                               *)
(***************************************************************************)
(* A text begins at the grammar's first place.                             *)
LEMMA NothingIsPlaced == Placed(Nothing) /\ Nothing.at = "create"
  BY DEF Placed, Settled, Titles, Nothing, Symbol

(* Every arc either writes a word or belongs to an expression.             *)
LEMMA EveryArc ==
    ASSUME NEW p, Placed(p), NEW arc \in Arcs(p)
    PROVE  \/ p.at \notin ExpressionPlaces /\ Moves(p, arc.is)
           \/ p.at \in ExpressionPlaces /\ (Hides(p, arc.is) \/ Shuts(p, arc.is))
  <1>1. CASE p.at \in ExpressionPlaces
    BY <1>1, ExpressionGoesOn
  <1>2. CASE arc \in Space(p) /\ p.at \notin ExpressionPlaces
    BY <1>2, SpaceMoves
  <1>3. CASE arc \in From(p) /\ p.at \notin ExpressionPlaces
    <2>1. p.at \in Places
      BY DEF Placed, Settled, Places
    <2>2. From(p) = {} \/ p.at # "ended"
      BY DEF From
    <2>3. \/ p.at \in Titles \ {"ended"} \/ p.at \in ColumnPlaces \/ p.at \in ConstraintPlaces
          \/ p.at \in EntryPlaces \/ p.at \in ListPlaces
      BY <1>3, <2>1, <2>2 DEF Places, Titles
    <2>4. CASE p.at \in Titles \ {"ended"}
      BY <1>3, <2>4, CreateMoves, TableMoves, TitleMoves, ColumnsMoves, OptionsMoves
         DEF Titles
    <2>5. CASE p.at \in ColumnPlaces
      BY <1>3, <2>5, ColumnMoves, TypeMoves, LabelMoves, LabelledMoves, InlineMoves,
         DefaultMoves
         DEF ColumnPlaces
    <2>6. CASE p.at \in ConstraintPlaces
      BY <1>3, <2>6, ConstraintMoves, NameMoves, NamedMoves, PrimaryMoves,
         KeysMoves, ForeignMoves, ChildrenMoves, ReferencesMoves
         DEF ConstraintPlaces
    <2>7. CASE p.at \in EntryPlaces
      BY <1>3, <2>7, RestMoves, ExpressionMoves, ParentMoves, ParentedMoves,
         KeyedMoves, SetMoves
         DEF EntryPlaces
    <2>8. CASE p.at \in ListPlaces
      BY <1>3, <2>8, ListMoves, ListedMoves, CollationMoves DEF ListPlaces
    <2>9. QED
      BY <1>3, <2>3, <2>4, <2>5, <2>6, <2>7, <2>8
  <1>4. QED
    BY <1>1, <1>2, <1>3 DEF Arcs

(* The places of the grammar are closed under its arcs.                    *)
LEMMA ArcsLead ==
    ASSUME NEW p, Placed(p), NEW arc \in Arcs(p)
    PROVE  arc.is \in Symbols /\ Placed(arc.is)
  BY EveryArc DEF Moves, Hides, Shuts

-----------------------------------------------------------------------------
(***************************************************************************)
(* Walks, and what a text says: FlattenSeq of what each symbol says.       *)
(***************************************************************************)
(* A walk over words: f is what the walker is behind each of them.         *)
IsWalk(f, base, step, words) ==
    /\ f[0] = base
    /\ \A i \in 1 .. Len(words) : f[i] = step[<<f[i - 1], words[i]>>]

(* Over any words there is a walk.                                         *)
LEMMA WalkExists ==
    ASSUME NEW V, NEW W, NEW base \in V, NEW step \in [V \X W -> V], NEW words \in Seq(W)
    PROVE  \E f \in [0 .. Len(words) -> V] : IsWalk(f, base, step, words)
  <1> DEFINE Good(f, n) ==
               f[0] = base /\ \A i \in 1 .. n : f[i] = step[<<f[i - 1], words[i]>>]
             P == {n \in Nat : n <= Len(words) => \E f \in [0 .. n -> V] : Good(f, n)}
  <1>1. 0 \in P
    <2> DEFINE f == [i \in 0 .. 0 |-> base]
    <2>1. f \in [0 .. 0 -> V] /\ Good(f, 0)
      OBVIOUS
    <2>2. QED
      BY <2>1
  <1>2. ASSUME NEW n \in P PROVE n + 1 \in P
    <2> SUFFICES ASSUME n + 1 <= Len(words)
                 PROVE  \E f \in [0 .. n + 1 -> V] : Good(f, n + 1)
      BY <1>2
    <2>1. n \in Nat /\ n <= Len(words) /\ Len(words) \in Nat /\ words[n + 1] \in W
      BY <1>2
    <2>2. PICK f \in [0 .. n -> V] : Good(f, n)
      BY <1>2, <2>1
    <2> DEFINE h == [i \in 0 .. n + 1 |-> IF i <= n THEN f[i] ELSE step[<<f[n], words[n + 1]>>]]
    <2>3. h \in [0 .. n + 1 -> V]
      BY <2>1, <2>2
    <2>4. Good(h, n + 1)
      <3>1. h[0] = base /\ h[n] = f[n] /\ h[n + 1] = step[<<f[n], words[n + 1]>>]
        BY <2>1, <2>2
      <3>2. ASSUME NEW i \in 1 .. n + 1 PROVE h[i] = step[<<h[i - 1], words[i]>>]
        <4>1. CASE i = n + 1
          <5>1. i - 1 = n
            BY <2>1, <4>1
          <5> HIDE DEF h
          <5>2. QED
            BY <3>1, <4>1, <5>1
        <4>2. CASE i # n + 1
          <5>1. i \in 1 .. n /\ i - 1 \in 0 .. n /\ i \in 0 .. n + 1 /\ i - 1 \in 0 .. n + 1
            BY <2>1, <4>2
          <5>2. h[i] = f[i] /\ h[i - 1] = f[i - 1]
            BY <5>1
          <5> HIDE DEF h
          <5>3. QED
            BY <2>2, <5>1, <5>2
        <4>3. QED
          BY <4>1, <4>2
      <3> HIDE DEF h
      <3>3. QED
        BY <3>1, <3>2
    <2> HIDE DEF h, Good
    <2>5. QED
      BY <2>3, <2>4
  <1>3. P = Nat
    <2> HIDE DEF P
    <2>1. P \in SUBSET Nat
      BY DEF P
    <2>2. QED
      BY <1>1, <1>2, <2>1, CountingUp
  <1>4. QED
    BY <1>3 DEF IsWalk

(* And it is the only one: over words that begin alike, walks that begin   *)
(* alike go alike.                                                         *)
LEMMA WalkIsOne ==
    ASSUME NEW base, NEW step, NEW W, NEW words \in Seq(W), NEW more \in Seq(W),
           Len(words) <= Len(more), \A i \in DOMAIN words : words[i] = more[i],
           NEW f, NEW g, IsWalk(f, base, step, words), IsWalk(g, base, step, more)
    PROVE  \A i \in 0 .. Len(words) : f[i] = g[i]
  <1> DEFINE P == {n \in Nat : n <= Len(words) => f[n] = g[n]}
  <1>0. Len(words) \in Nat /\ Len(more) \in Nat
    OBVIOUS
  <1>1. 0 \in P
    BY <1>0 DEF IsWalk
  <1>2. ASSUME NEW n \in P PROVE n + 1 \in P
    <2> SUFFICES ASSUME n + 1 <= Len(words) PROVE f[n + 1] = g[n + 1]
      BY <1>2
    <2>1. n \in Nat /\ n <= Len(words) /\ f[n] = g[n]
      BY <1>0, <1>2
    <2>2. n + 1 \in 1 .. Len(words) /\ n + 1 \in 1 .. Len(more) /\ (n + 1) - 1 = n
      BY <1>0, <2>1
    <2>3. words[n + 1] = more[n + 1]
      BY <2>2
    <2>4. QED
      BY <2>1, <2>2, <2>3 DEF IsWalk
  <1>3. P = Nat
    <2> HIDE DEF P
    <2>1. P \in SUBSET Nat
      BY DEF P
    <2>2. QED
      BY <1>1, <1>2, <2>1, CountingUp
  <1>4. QED
    BY <1>0, <1>3

(* What holds of no words, and of more by one, holds of any.               *)
LEMMA WordByWord ==
    ASSUME NEW W, NEW P, << >> \in P,
           \A s \in Seq(W) : \A x \in W : s \in P => Append(s, x) \in P
    PROVE  \A s \in Seq(W) : s \in P
  <1> DEFINE N == {n \in Nat : \A s \in Seq(W) : Len(s) = n => s \in P}
  <1>1. 0 \in N
    <2>1. \A s \in Seq(W) : Len(s) = 0 => s = << >>
      BY EmptySeq
    <2>2. QED
      BY <2>1
  <1>2. ASSUME NEW n \in N PROVE n + 1 \in N
    <2> SUFFICES ASSUME NEW s \in Seq(W), Len(s) = n + 1 PROVE s \in P
      BY <1>2
    <2>1. n \in Nat /\ s # << >>
      BY <1>2
    <2>2. PICK t \in Seq(W), x \in W : s = Append(t, x)
      BY <2>1, SequenceEmptyOrAppend
    <2>3. Len(t) = n
      BY <2>1, <2>2
    <2>4. QED
      BY <1>2, <2>2, <2>3
  <1>3. N = Nat
    <2> HIDE DEF N
    <2>1. N \in SUBSET Nat
      BY DEF N
    <2>2. QED
      BY <1>1, <1>2, <2>1, CountingUp
  <1>4. QED
    BY <1>3

Joining(X) == [p \in Seq(X) \X Seq(X) |-> p[1] \o p[2]]

(* FlattenSeq is such a walk.                                              *)
LEMMA FlattenIs ==
    ASSUME NEW X, NEW s \in Seq(Seq(X))
    PROVE  \E f \in [0 .. Len(s) -> Seq(X)] :
              IsWalk(f, << >>, Joining(X), s) /\ FlattenSeq(s) = f[Len(s)]
  <1>1. << >> \in Seq(X) /\ Joining(X) \in [Seq(X) \X Seq(X) -> Seq(X)]
    BY DEF Joining
  <1>2. PICK f \in [0 .. Len(s) -> Seq(X)] : IsWalk(f, << >>, Joining(X), s)
    BY <1>1, WalkExists
  <1>3. CASE Len(s) = 0
    <2>1. s = << >>
      BY <1>3, EmptySeq
    <2>2. QED
      BY <1>2, <1>3, <2>1 DEF FlattenSeq, IsWalk
  <1>4. CASE Len(s) # 0
    <2> DEFINE n == Len(s)
               Flattens(g) == g = [i \in 1 .. n |-> IF i = 1 THEN s[i] ELSE g[i - 1] \o s[i]]
               h == [i \in 1 .. n |-> f[i]]
    <2>1. n \in Nat /\ n >= 1 /\ \A i \in 1 .. n : s[i] \in Seq(X) /\ f[i] \in Seq(X)
      <3>1. n \in Nat /\ n >= 1
        BY <1>4, LenProperties
      <3>2. \A i \in 1 .. n : s[i] \in Seq(X)
        BY ElementOfSeq
      <3>3. \A i \in 1 .. n : i \in 0 .. n
        BY <3>1
      <3> HIDE DEF n
      <3>4. f \in [0 .. n -> Seq(X)]
        BY DEF n
      <3>5. QED
        BY <3>1, <3>2, <3>3, <3>4
    <2>2. \A i \in 1 .. n : f[i] = f[i - 1] \o s[i]
      <3>1. \A i \in 1 .. n : f[i - 1] \in Seq(X)
        <4>1. \A i \in 1 .. n : i - 1 \in 0 .. n
          BY <2>1
        <4> HIDE DEF n
        <4>2. f \in [0 .. n -> Seq(X)]
          BY DEF n
        <4>3. QED
          BY <4>1, <4>2
      <3>2. \A i \in 1 .. n : f[i] = Joining(X)[<<f[i - 1], s[i]>>]
        BY <1>2 DEF IsWalk
      <3> HIDE DEF n
      <3>3. \A a, b \in Seq(X) : Joining(X)[<<a, b>>] = a \o b
        BY DEF Joining
      <3>4. QED
        BY <2>1, <3>1, <3>2, <3>3
    <2>3. f[0] = << >> /\ f[1] = s[1]
      <3>1. f[0] = << >>
        BY <1>2 DEF IsWalk
      <3>2. f[1] = f[0] \o s[1]
        <4>1. 1 \in 1 .. n /\ 1 - 1 = 0
          BY <2>1
        <4> HIDE DEF n
        <4>2. f[1] = f[1 - 1] \o s[1]
          BY <2>2, <4>1
        <4>3. QED
          BY <4>1, <4>2
      <3>3. QED
        BY <2>1, <3>1, <3>2, ConcatEmptySeq
    <2>4. Flattens(h)
      <3>1. ASSUME NEW i \in 1 .. n
            PROVE  h[i] = IF i = 1 THEN s[i] ELSE h[i - 1] \o s[i]
        <4>1. CASE i = 1
          BY <2>3, <4>1
        <4>2. CASE i # 1
          <5>1. i - 1 \in 1 .. n
            BY <2>1, <4>2
          <5>2. QED
            BY <2>2, <4>2, <5>1
        <4>3. QED
          BY <4>1, <4>2
      <3>2. h = [i \in 1 .. n |-> h[i]]
        OBVIOUS
      <3> HIDE DEF h, n
      <3>3. QED
        BY <3>1, <3>2
    <2>5. ASSUME NEW g, Flattens(g) PROVE g[n] = f[n]
      <3> DEFINE P == {m \in Nat : m + 1 <= n => g[m + 1] = f[m + 1]}
      <3>1. 0 \in P
        BY <2>1, <2>3, <2>5
      <3>2. ASSUME NEW m \in P PROVE m + 1 \in P
        <4> SUFFICES ASSUME m + 2 <= n PROVE g[m + 2] = f[m + 2]
          BY <3>2
        <4>1. m \in Nat /\ m + 2 \in 1 .. n /\ m + 2 # 1 /\ (m + 2) - 1 = m + 1
          BY <2>1, <3>2
        <4>2. g[m + 1] = f[m + 1]
          BY <2>1, <3>2, <4>1
        <4>3. g[m + 2] = g[m + 1] \o s[m + 2]
          BY <2>5, <4>1
        <4>4. QED
          BY <2>2, <4>1, <4>2, <4>3
      <3>3. P = Nat
        <4> HIDE DEF P
        <4>1. P \in SUBSET Nat
          BY DEF P
        <4>2. QED
          BY <3>1, <3>2, <4>1, CountingUp
      <3>4. n - 1 \in Nat /\ (n - 1) + 1 = n
        BY <2>1
      <3>5. n - 1 \in P
        BY <3>3, <3>4
      <3>6. QED
        BY <3>4, <3>5
    <2>6. FlattenSeq(s) = (CHOOSE g : Flattens(g))[n]
      BY <1>4 DEF FlattenSeq
    <2>7. Flattens(CHOOSE g : Flattens(g))
      <3> HIDE DEF h, Flattens
      <3>1. QED
        BY <2>4
    <2>8. FlattenSeq(s) = f[n]
      <3> HIDE DEF Flattens, n
      <3>1. QED
        BY <2>5, <2>6, <2>7
    <2>9. QED
      BY <1>2, <2>8
  <1>5. QED
    BY <1>3, <1>4

(* FlattenSeq gives a sequence of what is in its sequences.                *)
LEMMA FlattenType ==
    ASSUME NEW X, NEW s \in Seq(Seq(X))
    PROVE  FlattenSeq(s) \in Seq(X)
  <1>1. PICK f \in [0 .. Len(s) -> Seq(X)] : FlattenSeq(s) = f[Len(s)]
    BY FlattenIs
  <1>2. Len(s) \in 0 .. Len(s)
    BY LenProperties
  <1>3. QED
    BY <1>1, <1>2

(* FlattenSeq of nothing is nothing.                                       *)
LEMMA FlattenNone == FlattenSeq(<< >>) = << >>
  BY DEF FlattenSeq

(* FlattenSeq goes on by a sequence.                                       *)
LEMMA FlattenMore ==
    ASSUME NEW X, NEW s \in Seq(Seq(X)), NEW x \in Seq(X)
    PROVE  FlattenSeq(Append(s, x)) = FlattenSeq(s) \o x
  <1> DEFINE t == Append(s, x)
             n == Len(s)
  <1>1. /\ t \in Seq(Seq(X)) /\ Len(t) = n + 1 /\ t[n + 1] = x /\ n \in Nat
        /\ \A i \in DOMAIN s : s[i] = t[i]
    BY AppendProperties
  <1>2. PICK f \in [0 .. n -> Seq(X)] :
           IsWalk(f, << >>, Joining(X), s) /\ FlattenSeq(s) = f[n]
    BY FlattenIs
  <1> HIDE DEF t
  <1>3. PICK g \in [0 .. Len(t) -> Seq(X)] :
           IsWalk(g, << >>, Joining(X), t) /\ FlattenSeq(t) = g[Len(t)]
    BY <1>1, FlattenIs
  <1>4. \A i \in 0 .. n : f[i] = g[i]
    <2>1. n <= Len(t)
      BY <1>1
    <2>2. t \in Seq(Seq(X))
      BY <1>1
    <2>3. \A i \in DOMAIN s : s[i] = t[i]
      BY <1>1
    <2>4. IsWalk(f, << >>, Joining(X), s)
      BY <1>2
    <2>5. IsWalk(g, << >>, Joining(X), t)
      BY <1>3
    <2>6. QED
      <3> DEFINE W == Seq(X)
                 step == Joining(X)
      <3>1. s \in Seq(W) /\ t \in Seq(W) /\ Len(s) <= Len(t)
        BY <2>1, <2>2
      <3>2. IsWalk(f, << >>, step, s) /\ IsWalk(g, << >>, step, t)
        BY <2>4, <2>5
      <3> HIDE DEF W, step
      <3>3. \A i \in 0 .. Len(s) : f[i] = g[i]
        BY <2>3, <3>1, <3>2, WalkIsOne
      <3>4. QED
        BY <3>3
  <1>5. g[n + 1] = Joining(X)[<<g[n], x>>]
    <2>1. n + 1 \in 1 .. Len(t) /\ (n + 1) - 1 = n
      BY <1>1
    <2>2. QED
      BY <1>1, <1>3, <2>1 DEF IsWalk
  <1>6. g[n] = f[n] /\ f[n] \in Seq(X)
    BY <1>1, <1>2, <1>4
  <1>7. Joining(X)[<<f[n], x>>] = f[n] \o x
    BY <1>6 DEF Joining
  <1>8. QED
    BY <1>1, <1>2, <1>3, <1>5, <1>6, <1>7 DEF t

(* What each symbol says, in one sequence.                                 *)
Sayings(S, X) == [S -> Seq(X)]
Saying(f, s) == FlattenSeq([i \in DOMAIN s |-> f[s[i]]])

(* What a symbol says is a sequence of words.                              *)
LEMMA SaysAWord ==
    ASSUME NEW S, NEW X, NEW f \in Sayings(S, X), NEW x \in S
    PROVE  f[x] \in Seq(X)
  BY DEF Sayings

(* So is what each symbol of a text says.                                  *)
LEMMA LinkedSaying ==
    ASSUME NEW S, NEW X, NEW f \in Sayings(S, X), NEW s \in Seq(S)
    PROVE  [i \in DOMAIN s |-> f[s[i]]] \in Seq(Seq(X))
  <1>1. DOMAIN s = 1 .. Len(s) /\ Len(s) \in Nat
    BY LenProperties
  <1>2. \A i \in 1 .. Len(s) : f[s[i]] \in Seq(X)
    BY ElementOfSeq, SaysAWord
  <1>3. QED
    BY <1>1, <1>2, IsASeq

(* What a text says is a sequence of words.                                *)
LEMMA SayingType ==
    ASSUME NEW S, NEW X, NEW f \in Sayings(S, X), NEW s \in Seq(S)
    PROVE  Saying(f, s) \in Seq(X)
  <1>1. [i \in DOMAIN s |-> f[s[i]]] \in Seq(Seq(X))
    BY LinkedSaying
  <1>2. QED
    BY <1>1, FlattenType DEF Saying

(* An empty text says nothing.                                             *)
LEMMA SayingNothing == \A f : Saying(f, << >>) = << >>
  <1> SUFFICES ASSUME NEW f PROVE Saying(f, << >>) = << >>
    OBVIOUS
  <1>1. [i \in DOMAIN << >> |-> f[<< >>[i]]] = << >>
    OBVIOUS
  <1>2. QED
    BY <1>1, FlattenNone DEF Saying

(* A symbol more says what it says, behind the rest.                       *)
LEMMA SayingMore ==
    ASSUME NEW S, NEW X, NEW f \in Sayings(S, X), NEW s \in Seq(S), NEW x \in S
    PROVE  Saying(f, Append(s, x)) = Saying(f, s) \o f[x]
  <1> DEFINE a == [i \in DOMAIN s |-> f[s[i]]]
             t == Append(s, x)
             b == [i \in DOMAIN t |-> f[t[i]]]
  <1>1. a \in Seq(Seq(X)) /\ Len(a) = Len(s) /\ f[x] \in Seq(X)
    <2>1. a \in Seq(Seq(X))
      BY LinkedSaying
    <2>2. DOMAIN a = 1 .. Len(s) /\ DOMAIN a = 1 .. Len(a) /\ Len(s) \in Nat /\ Len(a) \in Nat
      BY <2>1, LenProperties
    <2>3. f[x] \in Seq(X)
      BY SaysAWord
    <2>4. QED
      BY <2>1, <2>2, <2>3
  <1>2. /\ t \in Seq(S) /\ Len(t) = Len(s) + 1 /\ t[Len(s) + 1] = x
        /\ \A i \in 1 .. Len(s) : t[i] = s[i]
    BY AppendProperties
  <1> HIDE DEF t
  <1>3. b \in Seq(Seq(X)) /\ Len(b) = Len(s) + 1
    <2>1. t \in Seq(S)
      BY <1>2
    <2>2. b \in Seq(Seq(X))
      BY <2>1, LinkedSaying
    <2>3. DOMAIN b = 1 .. Len(t) /\ DOMAIN b = 1 .. Len(b) /\ Len(t) \in Nat /\ Len(b) \in Nat
      BY <2>1, <2>2, LenProperties
    <2>4. QED
      BY <1>2, <2>2, <2>3
  <1>4. Append(a, f[x]) \in Seq(Seq(X)) /\ Len(Append(a, f[x])) = Len(s) + 1
    BY <1>1
  <1>5. \A i \in 1 .. Len(s) + 1 : b[i] = Append(a, f[x])[i]
    BY <1>1, <1>2
  <1> HIDE DEF a, b
  <1>6. b = Append(a, f[x])
    BY <1>3, <1>4, <1>5, SeqEqual
  <1>7. FlattenSeq(b) = FlattenSeq(a) \o f[x]
    BY <1>1, <1>6, FlattenMore
  <1>8. QED
    BY <1>7 DEF Saying, a, b, t

Regroups(a, b, c) == (a \o b) \o c = a \o (b \o c)

(* Three texts, joined from either end.                                    *)
LEMMA Associates ==
    ASSUME NEW X, NEW a \in Seq(X), NEW b \in Seq(X), NEW c \in Seq(X)
    PROVE  Regroups(a, b, c)
  BY ConcatAssociative DEF Regroups

(* Two texts say what each of them says.                                   *)
LEMMA SayingBoth ==
    ASSUME NEW S, NEW X, NEW f \in Sayings(S, X), NEW s \in Seq(S), NEW t \in Seq(S)
    PROVE  Saying(f, s \o t) = Saying(f, s) \o Saying(f, t)
  <1> DEFINE P == {u \in Seq(S) : Saying(f, s \o u) = Saying(f, s) \o Saying(f, u)}
  <1>1. << >> \in P
    <2>1. Saying(f, << >>) = << >>
      BY SayingNothing
    <2>2. Saying(f, s) \in Seq(X)
      BY SayingType
    <2>3. Saying(f, s) \o << >> = Saying(f, s)
      BY <2>2, ConcatEmptySeq
    <2>4. s \o << >> = s /\ << >> \in Seq(S)
      BY ConcatEmptySeq
    <2>5. QED
      BY <2>1, <2>3, <2>4
  <1>2. ASSUME NEW u \in Seq(S), NEW x \in S, u \in P PROVE Append(u, x) \in P
    <2>1. s \o u \in Seq(S) /\ s \o Append(u, x) = Append(s \o u, x) /\ Append(u, x) \in Seq(S)
      OBVIOUS
    <2>2. /\ Saying(f, Append(s \o u, x)) = Saying(f, s \o u) \o f[x]
          /\ Saying(f, Append(u, x)) = Saying(f, u) \o f[x]
      BY <2>1, SayingMore
    <2>3. Saying(f, s) \in Seq(X) /\ Saying(f, u) \in Seq(X) /\ f[x] \in Seq(X)
      BY SaysAWord, SayingType
    <2>4. (Saying(f, s) \o Saying(f, u)) \o f[x] = Saying(f, s) \o (Saying(f, u) \o f[x])
      <3> HIDE DEF P
      <3>1. Regroups(Saying(f, s), Saying(f, u), f[x])
        BY <2>3, Associates, Zenon
      <3>2. QED
        BY <3>1 DEF Regroups
    <2>5. QED
      BY <1>2, <2>1, <2>2, <2>4
  <1>3. \A u \in Seq(S) : u \in P
    <2> HIDE DEF P
    <2>1. QED
      BY <1>1, <1>2, WordByWord
  <1>4. QED
    BY <1>3

(* Saying over what is said.                                               *)
LEMMA SayingTwice ==
    ASSUME NEW S, NEW X, NEW Y, NEW f \in Sayings(S, X), NEW g \in Sayings(X, Y),
           NEW s \in Seq(S)
    PROVE  Saying(g, Saying(f, s)) = Saying([x \in S |-> Saying(g, f[x])], s)
  <1>0. \A a, b \in Seq(X) : Saying(g, a \o b) = Saying(g, a) \o Saying(g, b)
    BY SayingBoth
  <1> DEFINE h == [x \in S |-> Saying(g, f[x])]
             P == {u \in Seq(S) : Saying(g, Saying(f, u)) = Saying(h, u)}
  <1>1. h \in Sayings(S, Y)
    <2>1. ASSUME NEW x \in S PROVE Saying(g, f[x]) \in Seq(Y)
      BY SaysAWord, SayingType
    <2>2. QED
      BY <2>1 DEF Sayings
  <1>2. << >> \in P
    BY SayingNothing
  <1>3. ASSUME NEW u \in Seq(S), NEW x \in S, u \in P PROVE Append(u, x) \in P
    <2>1. Saying(f, Append(u, x)) = Saying(f, u) \o f[x]
      BY SayingMore
    <2>2. Append(u, x) \in Seq(S)
      OBVIOUS
    <2>8. f[x] \in Seq(X)
      BY SaysAWord
    <2>7. Saying(f, u) \in Seq(X)
      BY SayingType
    <2>3. Saying(g, Saying(f, u) \o f[x]) = Saying(g, Saying(f, u)) \o Saying(g, f[x])
      BY <1>0, <2>7, <2>8
    <2>4. h[x] = Saying(g, f[x])
      OBVIOUS
    <2> HIDE DEF h
    <2>5. Saying(h, Append(u, x)) = Saying(h, u) \o h[x]
      BY <1>1, SayingMore
    <2>6. QED
      BY <1>3, <2>1, <2>2, <2>3, <2>4, <2>5
  <1>4. \A u \in Seq(S) : u \in P
    <2> HIDE DEF P, h
    <2>1. QED
      BY <1>2, <1>3, WordByWord
  <1>5. QED
    BY <1>4

(* Only what the symbols themselves say matters.                           *)
LEMMA SayingAlike ==
    ASSUME NEW f, NEW g, NEW s, \A i \in DOMAIN s : f[s[i]] = g[s[i]]
    PROVE  Saying(f, s) = Saying(g, s)
  <1>1. [i \in DOMAIN s |-> f[s[i]]] = [i \in DOMAIN s |-> g[s[i]]]
    OBVIOUS
  <1>2. QED
    BY <1>1 DEF Saying

-----------------------------------------------------------------------------
(***************************************************************************)
(* The walks of the two walkers.                                           *)
(***************************************************************************)
(* The masker walks word by word.                                           *)
LEMMA MaskWalkIs ==
    ASSUME NEW words, Len(words) \in Nat, NEW base, NEW h,
           h = [i \in 0 .. Len(words) |->
                  IF i = 0 THEN K!Beginning(base) ELSE K!next(h[i - 1], words[i])]
    PROVE  K!mask(words, base) = h[Len(words)]
  <1> DEFINE n == Len(words)
             Walks(g) == g = [i \in 0 .. n |->
                                IF i = 0 THEN K!Beginning(base) ELSE K!next(g[i - 1], words[i])]
  <1>1. K!mask(words, base) = (CHOOSE g : Walks(g))[n]
    BY DEF K!mask
  <1>2. Walks(h)
    OBVIOUS
  <1>3. Walks(CHOOSE g : Walks(g))
    <2> HIDE DEF Walks
    <2>1. QED
      BY <1>2
  <1>4. ASSUME NEW g, Walks(g) PROVE g[n] = h[n]
    <2> DEFINE P == {k \in Nat : k <= n => g[k] = h[k]}
    <2>0. n \in Nat
      OBVIOUS
    <2>1. 0 \in P
      <3>1. 0 \in 0 .. n
        BY <2>0
      <3>2. g[0] = K!Beginning(base) /\ h[0] = K!Beginning(base)
        BY <1>2, <1>4, <3>1
      <3>3. QED
        BY <3>2
    <2>2. ASSUME NEW k \in P PROVE k + 1 \in P
      <3> SUFFICES ASSUME k + 1 <= n PROVE g[k + 1] = h[k + 1]
        BY <2>2
      <3>1. k \in Nat /\ k + 1 \in 0 .. n /\ k + 1 # 0 /\ (k + 1) - 1 = k /\ g[k] = h[k]
        BY <2>0, <2>2
      <3>2. g[k + 1] = K!next(g[k], words[k + 1])
        BY <1>4, <3>1
      <3>3. h[k + 1] = K!next(h[k], words[k + 1])
        BY <1>2, <3>1
      <3>4. QED
        BY <3>1, <3>2, <3>3
    <2>3. P = Nat
      <3> HIDE DEF P
      <3>1. P \in SUBSET Nat
        BY DEF P
      <3>2. QED
        BY <2>1, <2>2, <3>1, CountingUp
    <2>4. n \in P
      <3> HIDE DEF P
      <3>1. QED
        BY <2>0, <2>3
    <2>5. n <= n
      BY <2>0
    <2>6. QED
      BY <2>4, <2>5
  <1>5. QED
    <2> HIDE DEF Walks
    <2>1. (CHOOSE g : Walks(g))[n] = h[n]
      BY <1>3, <1>4
    <2>2. QED
      BY <1>1, <2>1

(* The recursive function that K!mask defines is there.                    *)
LEMMA MaskWalkExists ==
    ASSUME NEW words, Len(words) \in Nat, NEW base
    PROVE  \E h : h = [i \in 0 .. Len(words) |->
                         IF i = 0 THEN K!Beginning(base) ELSE K!next(h[i - 1], words[i])]
  <1> DEFINE Walks(g, n) == g = [i \in 0 .. n |->
                                IF i = 0 THEN K!Beginning(base) ELSE K!next(g[i - 1], words[i])]
             P == {n \in Nat : \E g : Walks(g, n)}
  <1>1. 0 \in P
    <2> DEFINE alone == [i \in 0 .. 0 |-> K!Beginning(base)]
    <2>1. \A i \in 0 .. 0 : alone[i] = IF i = 0 THEN K!Beginning(base) ELSE K!next(alone[i - 1], words[i])
      OBVIOUS
    <2>2. alone = [i \in 0 .. 0 |-> alone[i]]
      OBVIOUS
    <2> HIDE DEF alone
    <2>3. Walks(alone, 0)
      BY <2>1, <2>2
    <2>4. QED
      BY <2>3
  <1>2. ASSUME NEW n \in P PROVE n + 1 \in P
    <2>1. PICK g : Walks(g, n)
      BY <1>2
    <2>2. n \in Nat
      BY <1>2
    <2> DEFINE h == [i \in 0 .. n + 1 |-> IF i <= n THEN g[i] ELSE K!next(g[n], words[n + 1])]
    <2>3. ASSUME NEW i \in 0 .. n + 1
          PROVE  h[i] = IF i = 0 THEN K!Beginning(base) ELSE K!next(h[i - 1], words[i])
      <3>1. CASE i = n + 1
        <4>1. i # 0 /\ i - 1 = n /\ n \in 0 .. n + 1 /\ ~(n + 1 <= n) /\ n <= n
          BY <2>2, <3>1
        <4>2. h[i] = K!next(g[n], words[n + 1]) /\ h[n] = g[n]
          BY <3>1, <4>1
        <4>3. QED
          BY <3>1, <4>1, <4>2
      <3>2. CASE i # n + 1
        <4>1. i \in 0 .. n /\ i <= n
          BY <2>2, <3>2
        <4>2. h[i] = g[i]
          BY <4>1
        <4>3. CASE i = 0
          BY <2>1, <4>1, <4>2, <4>3
        <4>4. CASE i # 0
          <5>1. i - 1 \in 0 .. n + 1 /\ i - 1 <= n
            BY <2>2, <4>1, <4>4
          <5>2. h[i - 1] = g[i - 1]
            BY <5>1
          <5>3. g[i] = K!next(g[i - 1], words[i])
            BY <2>1, <4>1, <4>4
          <5>4. QED
            BY <4>2, <4>4, <5>2, <5>3
        <4>5. QED
          BY <4>3, <4>4
      <3>3. QED
        BY <3>1, <3>2
    <2>4. h = [i \in 0 .. n + 1 |-> h[i]]
      OBVIOUS
    <2> HIDE DEF h
    <2>5. Walks(h, n + 1)
      BY <2>3, <2>4
    <2> HIDE DEF Walks
    <2>6. n + 1 \in Nat /\ \E w : Walks(w, n + 1)
      BY <2>2, <2>5
    <2>7. QED
      BY <2>6
  <1>3. P = Nat
    <2> HIDE DEF P
    <2>1. P \in SUBSET Nat
      BY DEF P
    <2>2. QED
      BY <1>1, <1>2, <2>1, CountingUp
  <1>4. QED
    BY <1>3

(* K!mask on one word more is one step of exprMasker's walk more.          *)
LEMMA MaskWalks ==
    ASSUME NEW W, NEW base
    PROVE  /\ K!mask(<< >>, base) = K!Beginning(base)
           /\ \A words \in Seq(W) : \A word \in W :
                 K!mask(Append(words, word), base) = K!next(K!mask(words, base), word)
  <1>1. K!mask(<< >>, base) = K!Beginning(base)
    <2>1. Len(<< >>) = 0 /\ 0 \in Nat
      OBVIOUS
    <2>2. PICK h : h = [i \in 0 .. Len(<< >>) |->
                          IF i = 0 THEN K!Beginning(base) ELSE K!next(h[i - 1], << >>[i])]
      BY <2>1, MaskWalkExists
    <2>3. K!mask(<< >>, base) = h[Len(<< >>)]
      BY <2>1, <2>2, MaskWalkIs
    <2>4. 0 \in 0 .. Len(<< >>)
      BY <2>1
    <2>5. h[0] = K!Beginning(base)
      BY <2>2, <2>4
    <2>6. QED
      BY <2>1, <2>3, <2>5
  <1>2. ASSUME NEW words \in Seq(W), NEW word \in W
        PROVE  K!mask(Append(words, word), base) = K!next(K!mask(words, base), word)
    <2> DEFINE more == Append(words, word)
               n == Len(words)
    <2>1. /\ n \in Nat /\ Len(more) = n + 1 /\ more[n + 1] = word
          /\ \A i \in 1 .. n : more[i] = words[i]
      BY AppendProperties
    <2>2. PICK h : h = [i \in 0 .. Len(more) |->
                          IF i = 0 THEN K!Beginning(base) ELSE K!next(h[i - 1], more[i])]
      <3> HIDE DEF more
      <3>1. Len(more) \in Nat
        BY <2>1
      <3>2. QED
        BY <3>1, MaskWalkExists
    <2> HIDE DEF more
    <2> DEFINE g == [i \in 0 .. n |-> h[i]]
    <2>3. K!mask(more, base) = h[n + 1]
      <3>1. Len(more) \in Nat
        BY <2>1
      <3>2. K!mask(more, base) = h[Len(more)]
        BY <2>2, <3>1, MaskWalkIs
      <3>3. QED
        BY <2>1, <3>2
    <2>4. h[n + 1] = K!next(h[n], word)
      <3>1. n + 1 \in 0 .. Len(more) /\ n + 1 # 0 /\ (n + 1) - 1 = n
        BY <2>1
      <3>2. h[n + 1] = K!next(h[(n + 1) - 1], more[n + 1])
        BY <2>2, <3>1
      <3>3. QED
        BY <2>1, <3>1, <3>2
    <2>5. ASSUME NEW i \in 0 .. n
          PROVE  g[i] = IF i = 0 THEN K!Beginning(base) ELSE K!next(g[i - 1], words[i])
      <3>1. i \in 0 .. Len(more) /\ g[i] = h[i]
        BY <2>1
      <3>2. CASE i = 0
        BY <2>2, <3>1, <3>2
      <3>3. CASE i # 0
        <4>1. i \in 1 .. n /\ i - 1 \in 0 .. n
          BY <2>1, <3>3
        <4>2. g[i - 1] = h[i - 1] /\ more[i] = words[i]
          BY <2>1, <4>1
        <4>3. h[i] = K!next(h[i - 1], more[i])
          BY <2>2, <3>1, <3>3
        <4>4. QED
          BY <3>1, <3>3, <4>2, <4>3
      <3>4. QED
        BY <3>2, <3>3
    <2>6. g = [i \in 0 .. n |-> g[i]]
      OBVIOUS
    <2>7. g[n] = h[n]
      BY <2>1
    <2> HIDE DEF g
    <2>8. g = [i \in 0 .. n |-> IF i = 0 THEN K!Beginning(base) ELSE K!next(g[i - 1], words[i])]
      BY <2>5, <2>6
    <2>9. K!mask(words, base) = g[n]
      BY <2>1, <2>8, MaskWalkIs
    <2>10. QED
      BY <2>3, <2>4, <2>7, <2>9 DEF more
  <1>3. QED
    BY <1>1, <1>2

(* The quoter walks word by word.                                           *)
LEMMA QuoteWalkIs ==
    ASSUME NEW words, Len(words) \in Nat, NEW h,
           h = [i \in 0 .. Len(words) |->
                  IF i = 0 THEN Q!Beginning ELSE Q!next(h[i - 1], words[i])]
    PROVE  Q!walked(words) = h[Len(words)]
  <1> DEFINE n == Len(words)
             Walks(g) == g = [i \in 0 .. n |->
                                IF i = 0 THEN Q!Beginning ELSE Q!next(g[i - 1], words[i])]
  <1>1. Q!walked(words) = (CHOOSE g : Walks(g))[n]
    BY DEF Q!walked
  <1>2. Walks(h)
    OBVIOUS
  <1>3. Walks(CHOOSE g : Walks(g))
    <2> HIDE DEF Walks
    <2>1. QED
      BY <1>2
  <1>4. ASSUME NEW g, Walks(g) PROVE g[n] = h[n]
    <2> DEFINE P == {k \in Nat : k <= n => g[k] = h[k]}
    <2>0. n \in Nat
      OBVIOUS
    <2>1. 0 \in P
      <3>1. 0 \in 0 .. n
        BY <2>0
      <3>2. g[0] = Q!Beginning /\ h[0] = Q!Beginning
        BY <1>2, <1>4, <3>1
      <3>3. QED
        BY <3>2
    <2>2. ASSUME NEW k \in P PROVE k + 1 \in P
      <3> SUFFICES ASSUME k + 1 <= n PROVE g[k + 1] = h[k + 1]
        BY <2>2
      <3>1. k \in Nat /\ k + 1 \in 0 .. n /\ k + 1 # 0 /\ (k + 1) - 1 = k /\ g[k] = h[k]
        BY <2>0, <2>2
      <3>2. g[k + 1] = Q!next(g[k], words[k + 1])
        BY <1>4, <3>1
      <3>3. h[k + 1] = Q!next(h[k], words[k + 1])
        BY <1>2, <3>1
      <3>4. QED
        BY <3>1, <3>2, <3>3
    <2>3. P = Nat
      <3> HIDE DEF P
      <3>1. P \in SUBSET Nat
        BY DEF P
      <3>2. QED
        BY <2>1, <2>2, <3>1, CountingUp
    <2>4. n \in P
      <3> HIDE DEF P
      <3>1. QED
        BY <2>0, <2>3
    <2>5. n <= n
      BY <2>0
    <2>6. QED
      BY <2>4, <2>5
  <1>5. QED
    <2> HIDE DEF Walks
    <2>1. (CHOOSE g : Walks(g))[n] = h[n]
      BY <1>3, <1>4
    <2>2. QED
      BY <1>1, <2>1

(* The recursive function that Q!walked defines is there.                  *)
LEMMA QuoteWalkExists ==
    ASSUME NEW words, Len(words) \in Nat
    PROVE  \E h : h = [i \in 0 .. Len(words) |->
                         IF i = 0 THEN Q!Beginning ELSE Q!next(h[i - 1], words[i])]
  <1> DEFINE Walks(g, n) == g = [i \in 0 .. n |->
                                IF i = 0 THEN Q!Beginning ELSE Q!next(g[i - 1], words[i])]
             P == {n \in Nat : \E g : Walks(g, n)}
  <1>1. 0 \in P
    <2> DEFINE alone == [i \in 0 .. 0 |-> Q!Beginning]
    <2>1. \A i \in 0 .. 0 : alone[i] = IF i = 0 THEN Q!Beginning ELSE Q!next(alone[i - 1], words[i])
      OBVIOUS
    <2>2. alone = [i \in 0 .. 0 |-> alone[i]]
      OBVIOUS
    <2> HIDE DEF alone
    <2>3. Walks(alone, 0)
      BY <2>1, <2>2
    <2>4. QED
      BY <2>3
  <1>2. ASSUME NEW n \in P PROVE n + 1 \in P
    <2>1. PICK g : Walks(g, n)
      BY <1>2
    <2>2. n \in Nat
      BY <1>2
    <2> DEFINE h == [i \in 0 .. n + 1 |-> IF i <= n THEN g[i] ELSE Q!next(g[n], words[n + 1])]
    <2>3. ASSUME NEW i \in 0 .. n + 1
          PROVE  h[i] = IF i = 0 THEN Q!Beginning ELSE Q!next(h[i - 1], words[i])
      <3>1. CASE i = n + 1
        <4>1. i # 0 /\ i - 1 = n /\ n \in 0 .. n + 1 /\ ~(n + 1 <= n) /\ n <= n
          BY <2>2, <3>1
        <4>2. h[i] = Q!next(g[n], words[n + 1]) /\ h[n] = g[n]
          BY <3>1, <4>1
        <4>3. QED
          BY <3>1, <4>1, <4>2
      <3>2. CASE i # n + 1
        <4>1. i \in 0 .. n /\ i <= n
          BY <2>2, <3>2
        <4>2. h[i] = g[i]
          BY <4>1
        <4>3. CASE i = 0
          BY <2>1, <4>1, <4>2, <4>3
        <4>4. CASE i # 0
          <5>1. i - 1 \in 0 .. n + 1 /\ i - 1 <= n
            BY <2>2, <4>1, <4>4
          <5>2. h[i - 1] = g[i - 1]
            BY <5>1
          <5>3. g[i] = Q!next(g[i - 1], words[i])
            BY <2>1, <4>1, <4>4
          <5>4. QED
            BY <4>2, <4>4, <5>2, <5>3
        <4>5. QED
          BY <4>3, <4>4
      <3>3. QED
        BY <3>1, <3>2
    <2>4. h = [i \in 0 .. n + 1 |-> h[i]]
      OBVIOUS
    <2> HIDE DEF h
    <2>5. Walks(h, n + 1)
      BY <2>3, <2>4
    <2> HIDE DEF Walks
    <2>6. n + 1 \in Nat /\ \E w : Walks(w, n + 1)
      BY <2>2, <2>5
    <2>7. QED
      BY <2>6
  <1>3. P = Nat
    <2> HIDE DEF P
    <2>1. P \in SUBSET Nat
      BY DEF P
    <2>2. QED
      BY <1>1, <1>2, <2>1, CountingUp
  <1>4. QED
    BY <1>3

(* Q!walked on one word more is one step of keywordQuoter's walk more.     *)
LEMMA QuoteWalks ==
    ASSUME NEW W
    PROVE  /\ Q!walked(<< >>) = Q!Beginning
           /\ \A words \in Seq(W) : \A word \in W :
                 Q!walked(Append(words, word)) = Q!next(Q!walked(words), word)
  <1>1. Q!walked(<< >>) = Q!Beginning
    <2>1. Len(<< >>) = 0 /\ 0 \in Nat
      OBVIOUS
    <2>2. PICK h : h = [i \in 0 .. Len(<< >>) |->
                          IF i = 0 THEN Q!Beginning ELSE Q!next(h[i - 1], << >>[i])]
      BY <2>1, QuoteWalkExists
    <2>3. Q!walked(<< >>) = h[Len(<< >>)]
      BY <2>1, <2>2, QuoteWalkIs
    <2>4. 0 \in 0 .. Len(<< >>)
      BY <2>1
    <2>5. h[0] = Q!Beginning
      BY <2>2, <2>4
    <2>6. QED
      BY <2>1, <2>3, <2>5
  <1>2. ASSUME NEW words \in Seq(W), NEW word \in W
        PROVE  Q!walked(Append(words, word)) = Q!next(Q!walked(words), word)
    <2> DEFINE more == Append(words, word)
               n == Len(words)
    <2>1. /\ n \in Nat /\ Len(more) = n + 1 /\ more[n + 1] = word
          /\ \A i \in 1 .. n : more[i] = words[i]
      BY AppendProperties
    <2>2. PICK h : h = [i \in 0 .. Len(more) |->
                          IF i = 0 THEN Q!Beginning ELSE Q!next(h[i - 1], more[i])]
      <3> HIDE DEF more
      <3>1. Len(more) \in Nat
        BY <2>1
      <3>2. QED
        BY <3>1, QuoteWalkExists
    <2> HIDE DEF more
    <2> DEFINE g == [i \in 0 .. n |-> h[i]]
    <2>3. Q!walked(more) = h[n + 1]
      <3>1. Len(more) \in Nat
        BY <2>1
      <3>2. Q!walked(more) = h[Len(more)]
        BY <2>2, <3>1, QuoteWalkIs
      <3>3. QED
        BY <2>1, <3>2
    <2>4. h[n + 1] = Q!next(h[n], word)
      <3>1. n + 1 \in 0 .. Len(more) /\ n + 1 # 0 /\ (n + 1) - 1 = n
        BY <2>1
      <3>2. h[n + 1] = Q!next(h[(n + 1) - 1], more[n + 1])
        BY <2>2, <3>1
      <3>3. QED
        BY <2>1, <3>1, <3>2
    <2>5. ASSUME NEW i \in 0 .. n
          PROVE  g[i] = IF i = 0 THEN Q!Beginning ELSE Q!next(g[i - 1], words[i])
      <3>1. i \in 0 .. Len(more) /\ g[i] = h[i]
        BY <2>1
      <3>2. CASE i = 0
        BY <2>2, <3>1, <3>2
      <3>3. CASE i # 0
        <4>1. i \in 1 .. n /\ i - 1 \in 0 .. n
          BY <2>1, <3>3
        <4>2. g[i - 1] = h[i - 1] /\ more[i] = words[i]
          BY <2>1, <4>1
        <4>3. h[i] = Q!next(h[i - 1], more[i])
          BY <2>2, <3>1, <3>3
        <4>4. QED
          BY <3>1, <3>3, <4>2, <4>3
      <3>4. QED
        BY <3>2, <3>3
    <2>6. g = [i \in 0 .. n |-> g[i]]
      OBVIOUS
    <2>7. g[n] = h[n]
      BY <2>1
    <2> HIDE DEF g
    <2>8. g = [i \in 0 .. n |-> IF i = 0 THEN Q!Beginning ELSE Q!next(g[i - 1], words[i])]
      BY <2>5, <2>6
    <2>9. Q!walked(words) = g[n]
      BY <2>1, <2>8, QuoteWalkIs
    <2>10. QED
      BY <2>3, <2>4, <2>7, <2>9 DEF more
  <1>3. QED
    BY <1>1, <1>2

(***************************************************************************)
(* Texts that follow the grammar.                                          *)
(***************************************************************************)
Legal(s) ==
    /\ s \in Seq(Symbols)
    /\ \A i \in 1 .. Len(s) :
          \E arc \in Arcs(IF i = 1 THEN Nothing ELSE s[i - 1]) : s[i] = arc.is

Follows(s, x) == \E arc \in Arcs(Place(s)) : x = arc.is

(* The place of a text is its last symbol.                                 *)
LEMMA PlaceIs ==
    /\ Place(<< >>) = Nothing
    /\ \A s \in Seq(Symbols) : \A x \in Symbols : Place(Append(s, x)) = x
    /\ \A s \in Seq(Symbols) : Len(s) # 0 => Place(s) = s[Len(s)] /\ s[Len(s)] \in Symbols
  <1>1. Place(<< >>) = Nothing
    BY DEF Place
  <1>2. ASSUME NEW s \in Seq(Symbols), NEW x \in Symbols
        PROVE  Place(Append(s, x)) = x
    <2> DEFINE t == Append(s, x)
    <2>1. t # << >> /\ Len(t) = Len(s) + 1 /\ t[Len(s) + 1] = x
      BY AppendProperties
    <2> HIDE DEF t
    <2>2. Place(t) = t[Len(t)]
      BY <2>1 DEF Place, Last
    <2>3. QED
      BY <2>1, <2>2 DEF t
  <1>3. ASSUME NEW s \in Seq(Symbols), Len(s) # 0
        PROVE  Place(s) = s[Len(s)] /\ s[Len(s)] \in Symbols
    <2>1. s # << >> /\ Len(s) \in 1 .. Len(s)
      BY <1>3, LenProperties, EmptySeq
    <2>2. QED
      BY <2>1, ElementOfSeq DEF Place, Last
  <1>4. QED
    BY <1>1, <1>2, <1>3

(* The empty text follows the grammar.                                     *)
LEMMA LegalNone == Legal(<< >>)
  BY DEF Legal

(* A text goes on along an arc from its place, and no other way.           *)
LEMMA LegalMore ==
    ASSUME NEW s \in Seq(Symbols), NEW x \in Symbols
    PROVE  Legal(Append(s, x)) <=> Legal(s) /\ Follows(s, x)
  <1> DEFINE t == Append(s, x)
             n == Len(s)
  <1>1. /\ t \in Seq(Symbols) /\ Len(t) = n + 1 /\ t[n + 1] = x /\ n \in Nat
        /\ \A i \in 1 .. n : t[i] = s[i]
    BY AppendProperties, LenProperties
  <1> HIDE DEF t
  <1>2. Place(s) = IF n + 1 = 1 THEN Nothing ELSE t[n]
    <2>1. CASE n = 0
      <3>1. s = << >>
        BY <2>1, EmptySeq
      <3>2. QED
        BY <2>1, <3>1, PlaceIs
    <2>2. CASE n # 0
      <3>1. n \in 1 .. n /\ n + 1 # 1
        BY <1>1, <2>2
      <3>2. Place(s) = s[n] /\ t[n] = s[n]
        BY <1>1, <2>2, <3>1, PlaceIs
      <3>3. QED
        BY <3>1, <3>2
    <2>3. QED
      BY <2>1, <2>2
  <1>3. ASSUME Legal(t) PROVE Legal(s) /\ Follows(s, x)
    <2>1. ASSUME NEW i \in 1 .. n
          PROVE  \E arc \in Arcs(IF i = 1 THEN Nothing ELSE s[i - 1]) : s[i] = arc.is
      <3>1. i \in 1 .. n + 1 /\ (i # 1 => i - 1 \in 1 .. n)
        BY <1>1
      <3>2. \E arc \in Arcs(IF i = 1 THEN Nothing ELSE t[i - 1]) : t[i] = arc.is
        BY <1>1, <1>3, <3>1 DEF Legal
      <3>3. (IF i = 1 THEN Nothing ELSE t[i - 1]) = (IF i = 1 THEN Nothing ELSE s[i - 1])
        BY <1>1, <3>1
      <3>4. QED
        BY <1>1, <3>2, <3>3
    <2>2. Follows(s, x)
      <3>1. n + 1 \in 1 .. Len(t) /\ (n + 1) - 1 = n
        BY <1>1
      <3>2. \E arc \in Arcs(IF n + 1 = 1 THEN Nothing ELSE t[n]) : t[n + 1] = arc.is
        BY <1>3, <3>1 DEF Legal
      <3>3. QED
        BY <1>1, <1>2, <3>2 DEF Follows
    <2>3. QED
      BY <2>1, <2>2 DEF Legal
  <1>4. ASSUME Legal(s), Follows(s, x) PROVE Legal(t)
    <2>1. ASSUME NEW i \in 1 .. n + 1
          PROVE  \E arc \in Arcs(IF i = 1 THEN Nothing ELSE t[i - 1]) : t[i] = arc.is
      <3>1. CASE i = n + 1
        <4>1. i - 1 = n
          BY <1>1, <3>1
        <4>2. QED
          BY <1>1, <1>2, <1>4, <3>1, <4>1 DEF Follows
      <3>2. CASE i # n + 1
        <4>1. i \in 1 .. n /\ (i # 1 => i - 1 \in 1 .. n)
          BY <1>1, <3>2
        <4>2. \E arc \in Arcs(IF i = 1 THEN Nothing ELSE s[i - 1]) : s[i] = arc.is
          BY <1>4, <4>1 DEF Legal
        <4>3. (IF i = 1 THEN Nothing ELSE t[i - 1]) = (IF i = 1 THEN Nothing ELSE s[i - 1])
          BY <1>1, <4>1
        <4>4. QED
          BY <1>1, <4>1, <4>2, <4>3
      <3>3. QED
        BY <3>1, <3>2
    <2>2. QED
      BY <1>1, <2>1 DEF Legal
  <1>5. QED
    BY <1>3, <1>4 DEF t

(* Every legal text ends at a place of the grammar.                        *)
LEMMA LegalPlaced ==
    ASSUME NEW s, Legal(s)
    PROVE  Placed(Place(s))
  <1> DEFINE P == {t \in Seq(Symbols) : Legal(t) => Placed(Place(t))}
  <1>1. << >> \in P
    <2>1. << >> \in Seq(Symbols)
      OBVIOUS
    <2>2. QED
      BY <2>1, PlaceIs, NothingIsPlaced
  <1>2. ASSUME NEW t \in Seq(Symbols), NEW x \in Symbols, t \in P
        PROVE  Append(t, x) \in P
    <2>1. Append(t, x) \in Seq(Symbols)
      BY AppendProperties
    <2>2. ASSUME Legal(Append(t, x)) PROVE Placed(Place(Append(t, x)))
      <3>1. Legal(t) /\ Follows(t, x)
        BY <2>2, LegalMore
      <3>2. Placed(Place(t))
        BY <1>2, <3>1
      <3>3. Placed(x)
        BY <3>1, <3>2, ArcsLead DEF Follows
      <3>4. QED
        BY <3>3, PlaceIs
    <2>3. QED
      BY <2>1, <2>2
  <1>3. \A t \in Seq(Symbols) : t \in P
    <2> HIDE DEF P
    <2>1. QED
      BY <1>1, <1>2, WordByWord
  <1>4. QED
    BY <1>3 DEF Legal

(* What holds of no words, and of more by an arc, holds of legal texts.    *)
LEMMA ArcByArc ==
    ASSUME NEW P, << >> \in P,
           \A s \in P : \A arc :
              /\ Legal(s) /\ Placed(Place(s)) /\ arc \in Arcs(Place(s)) /\ arc.is \in Symbols
              => Append(s, arc.is) \in P
    PROVE  \A s : Legal(s) => s \in P
  <1> DEFINE R == {t \in Seq(Symbols) : Legal(t) => t \in P}
  <1>1. << >> \in R
    OBVIOUS
  <1>2. ASSUME NEW t \in Seq(Symbols), NEW x \in Symbols, t \in R
        PROVE  Append(t, x) \in R
    <2>1. Append(t, x) \in Seq(Symbols)
      BY AppendProperties
    <2>2. ASSUME Legal(Append(t, x)) PROVE Append(t, x) \in P
      <3>1. Legal(t) /\ Follows(t, x)
        BY <2>2, LegalMore
      <3>2. t \in P /\ Placed(Place(t))
        BY <1>2, <3>1, LegalPlaced
      <3>3. PICK arc \in Arcs(Place(t)) : x = arc.is
        BY <3>1 DEF Follows
      <3>4. QED
        BY <3>1, <3>2, <3>3
    <2>3. QED
      BY <2>1, <2>2
  <1>3. \A t \in Seq(Symbols) : t \in R
    <2> HIDE DEF R
    <2>1. QED
      BY <1>1, <1>2, WordByWord
  <1>4. QED
    BY <1>3 DEF Legal

(* The words of a text are those of its symbols.                           *)
LEMMA WordsAre ==
    /\ WordsOf(<< >>) = << >>
    /\ \A s \in Seq(Symbols) : WordsOf(s) \in Seq(Words)
    /\ \A s \in Seq(Symbols) : \A x \in Symbols : WordsOf(Append(s, x)) = Append(WordsOf(s), x.word)
  <1>0. \A x \in Symbols : x.word \in Words
    BY DEF Symbols
  <1>1. WordsOf(<< >>) = << >>
    BY DEF WordsOf
  <1>2. ASSUME NEW s \in Seq(Symbols)
        PROVE  /\ WordsOf(s) \in Seq(Words) /\ Len(WordsOf(s)) = Len(s) /\ Len(s) \in Nat
               /\ \A i \in 1 .. Len(s) : WordsOf(s)[i] = s[i].word
    <2>1. DOMAIN s = 1 .. Len(s) /\ Len(s) \in Nat
      BY LenProperties
    <2>2. WordsOf(s) = [i \in 1 .. Len(s) |-> s[i].word]
      BY <2>1 DEF WordsOf
    <2>3. \A i \in 1 .. Len(s) : s[i].word \in Words
      BY <1>0, ElementOfSeq
    <2>4. WordsOf(s) \in Seq(Words)
      BY <2>1, <2>2, <2>3, IsASeq
    <2>5. DOMAIN WordsOf(s) = 1 .. Len(WordsOf(s)) /\ Len(WordsOf(s)) \in Nat
      BY <2>4, LenProperties
    <2>6. Len(WordsOf(s)) = Len(s)
      BY <2>1, <2>2, <2>5
    <2>7. QED
      BY <2>1, <2>2, <2>4, <2>6
  <1>3. ASSUME NEW s \in Seq(Symbols), NEW x \in Symbols
        PROVE  WordsOf(Append(s, x)) = Append(WordsOf(s), x.word)
    <2> DEFINE t == Append(s, x)
               v == WordsOf(s)
    <2>1. t \in Seq(Symbols) /\ Len(t) = Len(s) + 1 /\ t[Len(s) + 1] = x
          /\ \A i \in 1 .. Len(s) : t[i] = s[i]
      BY AppendProperties
    <2> HIDE DEF t
    <2>2. WordsOf(t) \in Seq(Words) /\ Len(WordsOf(t)) = Len(t)
          /\ \A i \in 1 .. Len(t) : WordsOf(t)[i] = t[i].word
      BY <1>2, <2>1
    <2>3. v \in Seq(Words) /\ Len(v) = Len(s) /\ Len(s) \in Nat /\ x.word \in Words
          /\ \A i \in 1 .. Len(s) : v[i] = s[i].word
      BY <1>0, <1>2
    <2> HIDE DEF v
    <2>4. Append(v, x.word) \in Seq(Words) /\ Len(Append(v, x.word)) = Len(s) + 1
          /\ Append(v, x.word)[Len(s) + 1] = x.word
          /\ \A i \in 1 .. Len(s) : Append(v, x.word)[i] = v[i]
      BY <2>3, AppendProperties
    <2>5. \A i \in 1 .. Len(s) + 1 : WordsOf(t)[i] = Append(v, x.word)[i]
      BY <2>1, <2>2, <2>3, <2>4
    <2>6. WordsOf(t) = Append(v, x.word)
      BY <2>1, <2>2, <2>4, <2>5, SeqEqual
    <2>7. QED
      BY <2>6 DEF t, v
  <1>4. QED
    BY <1>1, <1>2, <1>3

(***************************************************************************)
(* The bodies the masker keeps.                                            *)
(***************************************************************************)
Good(B) ==
    /\ B \in Seq(Seq(Words)) /\ IsInjective(B)
    /\ \A i \in DOMAIN B : K!sqldefRejectsExpression(B[i])

Grows(A, B) == Len(A) <= Len(B) /\ \A i \in DOMAIN A : B[i] = A[i]

Has(B, body) == \E i \in DOMAIN B : B[i] = body

Shows(x, B) == x.role = "close" /\ K!sqldefRejectsExpression(x.body) => Has(B, x.body)
Covers(B, s) == \A i \in DOMAIN s : Shows(s[i], B)

Kept(B, body) ==
    IF K!sqldefRejectsExpression(body) THEN <<K!placeholderFor(B, body)>> ELSE body

(* What the masker writes for a symbol, and what the quoter then writes.   *)
Masked(B) ==
    [x \in Symbols |->
        IF x.role = "body" THEN << >>
        ELSE IF x.role = "close" THEN Kept(B, x.body) \o <<x.word>> ELSE <<x.word>>]
Sealed(B) ==
    [x \in Symbols |->
        IF x.role = "body" THEN << >>
        ELSE IF x.role = "close" THEN Kept(B, x.body) \o <<x.word>> ELSE <<InQuotes(x)>>]

Drops(B) == {K!placeholderFor(B, body) : body \in Seq(Words)}
Quotations == {Q!quoteIdentAt(word) : word \in Words}

Shuttings == [x \in Symbols |-> IF x.role = "close" THEN <<x>> ELSE << >>]

(* What the masker and the quoter write are words, placeholders and words  *)
(* in quotes.                                                              *)
LEMMA SayingsAre ==
    ASSUME NEW B
    PROVE  /\ Masked(B) \in Sayings(Symbols, Words \cup Drops(B))
           /\ Sealed(B) \in Sayings(Symbols, Words \cup Drops(B) \cup Quotations)
           /\ Shuttings \in Sayings(Symbols, Symbols)
  <1>1. ASSUME NEW x \in Symbols
        PROVE  Kept(B, x.body) \o <<x.word>> \in Seq(Words \cup Drops(B))
    <2>1. x.body \in Seq(Words) /\ x.word \in Words
      BY DEF Symbols
    <2>2. <<x.word>> \in Seq(Words \cup Drops(B))
      BY <2>1
    <2>3. Kept(B, x.body) \in Seq(Words \cup Drops(B))
      <3>1. K!placeholderFor(B, x.body) \in Drops(B)
        BY <2>1 DEF Drops
      <3>2. <<K!placeholderFor(B, x.body)>> \in Seq(Words \cup Drops(B))
        BY <3>1
      <3>3. x.body \in Seq(Words \cup Drops(B))
        BY <2>1
      <3>4. QED
        BY <3>2, <3>3 DEF Kept
    <2>4. QED
      BY <2>2, <2>3
  <1>2. Masked(B) \in Sayings(Symbols, Words \cup Drops(B))
    <2>1. ASSUME NEW x \in Symbols
          PROVE  (IF x.role = "body" THEN << >>
                  ELSE IF x.role = "close" THEN Kept(B, x.body) \o <<x.word>> ELSE <<x.word>>)
                 \in Seq(Words \cup Drops(B))
      <3>1. x.word \in Words
        BY DEF Symbols
      <3>2. <<x.word>> \in Seq(Words \cup Drops(B)) /\ << >> \in Seq(Words \cup Drops(B))
        BY <3>1
      <3>3. QED
        BY <1>1, <3>2
    <2>2. QED
      BY <2>1 DEF Masked, Sayings
  <1>3. Sealed(B) \in Sayings(Symbols, Words \cup Drops(B) \cup Quotations)
    <2>1. ASSUME NEW x \in Symbols
          PROVE  (IF x.role = "body" THEN << >>
                  ELSE IF x.role = "close" THEN Kept(B, x.body) \o <<x.word>> ELSE <<InQuotes(x)>>)
                 \in Seq(Words \cup Drops(B) \cup Quotations)
      <3>1. InQuotes(x) \in Words \cup Quotations
        BY DEF Symbols, InQuotes, Quotations
      <3>2. <<InQuotes(x)>> \in Seq(Words \cup Drops(B) \cup Quotations)
            /\ << >> \in Seq(Words \cup Drops(B) \cup Quotations)
        BY <3>1
      <3>3. Kept(B, x.body) \o <<x.word>> \in Seq(Words \cup Drops(B) \cup Quotations)
        <4>1. Kept(B, x.body) \o <<x.word>> \in Seq(Words \cup Drops(B))
          BY <1>1
        <4>2. QED
          BY <4>1
      <3>4. QED
        BY <3>2, <3>3
    <2>2. QED
      BY <2>1 DEF Sealed, Sayings
  <1>4. Shuttings \in Sayings(Symbols, Symbols)
    <2>1. ASSUME NEW x \in Symbols
          PROVE  (IF x.role = "close" THEN <<x>> ELSE << >>) \in Seq(Symbols)
      OBVIOUS
    <2>2. QED
      BY <2>1 DEF Shuttings, Sayings
  <1>5. QED
    BY <1>2, <1>3, <1>4

(* A body keeps its placeholder.                                           *)
LEMMA SamePlaceholder ==
    ASSUME NEW A, NEW B, Good(A), Good(B), Grows(A, B), NEW body, Has(A, body)
    PROVE  K!placeholderFor(A, body) = K!placeholderFor(B, body)
  <1> DEFINE i == CHOOSE i \in DOMAIN A : A[i] = body
             j == CHOOSE j \in DOMAIN B : B[j] = body
  <1>1. i \in DOMAIN A /\ A[i] = body
    BY DEF Has
  <1>2. i \in DOMAIN B /\ B[i] = body
    <2>1. DOMAIN A = 1 .. Len(A) /\ DOMAIN B = 1 .. Len(B) /\ Len(A) \in Nat /\ Len(B) \in Nat
          /\ Len(A) <= Len(B)
      BY LenProperties DEF Good, Grows
    <2>2. DOMAIN A \subseteq DOMAIN B
      BY <2>1
    <2> HIDE DEF i
    <2>3. QED
      BY <1>1, <2>2 DEF Grows
  <1>3. j \in DOMAIN B /\ B[j] = body
    BY <1>2
  <1>4. i = j
    <2>1. \A a, b \in DOMAIN B : B[a] = B[b] => a = b
      BY DEF Good, IsInjective
    <2> HIDE DEF i, j
    <2>2. QED
      BY <1>2, <1>3, <2>1
  <1>5. QED
    BY <1>4 DEF K!placeholderFor

(* An expression that has a placeholder keeps it when there are more.      *)
LEMMA GrowingMore ==
    ASSUME NEW A, NEW B, Good(A), Good(B), Grows(A, B), NEW s, Covers(A, s)
    PROVE  Covers(B, s)
  <1>1. \A body : Has(A, body) => Has(B, body)
    <2>1. DOMAIN A = 1 .. Len(A) /\ DOMAIN B = 1 .. Len(B) /\ Len(A) \in Nat /\ Len(B) \in Nat
          /\ Len(A) <= Len(B)
      BY LenProperties DEF Good, Grows
    <2>2. DOMAIN A \subseteq DOMAIN B
      BY <2>1
    <2>3. QED
      BY <2>2 DEF Has, Grows
  <1>2. QED
    BY <1>1 DEF Covers, Shows

(* Bodies that grow twice have grown.                                      *)
LEMMA GrowsAgain ==
    ASSUME NEW A, NEW B, NEW C, Good(A), Good(B), Good(C), Grows(A, B), Grows(B, C)
    PROVE  Grows(A, C)
  <1>1. DOMAIN A = 1 .. Len(A) /\ DOMAIN B = 1 .. Len(B) /\ Len(A) \in Nat /\ Len(B) \in Nat
        /\ Len(A) <= Len(B) /\ Len(B) <= Len(C) /\ Len(C) \in Nat
    BY LenProperties DEF Good, Grows
  <1>2. DOMAIN A \subseteq DOMAIN B
    BY <1>1
  <1>3. QED
    BY <1>1, <1>2 DEF Grows

(* What is written for a text does not change when there are more bodies:  *)
(* the text for the database, masked after the schema's, gets the same     *)
(* placeholders.                                                           *)
LEMMA MaskedAlike ==
    ASSUME NEW A, NEW B, Good(A), Good(B), Grows(A, B), NEW s \in Seq(Symbols), Covers(A, s)
    PROVE  /\ Saying(Masked(A), s) = Saying(Masked(B), s)
           /\ Saying(Sealed(A), s) = Saying(Sealed(B), s)
  <1>1. ASSUME NEW i \in DOMAIN s
        PROVE  Masked(A)[s[i]] = Masked(B)[s[i]] /\ Sealed(A)[s[i]] = Sealed(B)[s[i]]
    <2> DEFINE x == s[i]
    <2>1. x \in Symbols
      BY ElementOfSeq, LenProperties
    <2>2. Shows(x, A)
      BY DEF Covers
    <2> HIDE DEF x
    <2>3. x.role = "close" => Kept(A, x.body) = Kept(B, x.body)
      <3>1. CASE K!sqldefRejectsExpression(x.body)
        BY <2>2, <3>1, SamePlaceholder DEF Shows, Kept
      <3>2. CASE ~K!sqldefRejectsExpression(x.body)
        BY <3>2 DEF Kept
      <3>3. QED
        BY <3>1, <3>2
    <2>4. Masked(A)[x] = Masked(B)[x] /\ Sealed(A)[x] = Sealed(B)[x]
      BY <2>1, <2>3 DEF Masked, Sealed
    <2>5. QED
      BY <2>4 DEF x
  <1>2. QED
    BY <1>1, SayingAlike

(* A text more by a symbol has its placeholders if both parts have.        *)
LEMMA CoversMore ==
    ASSUME NEW B, NEW s \in Seq(Symbols), NEW x \in Symbols
    PROVE  Covers(B, Append(s, x)) <=> Covers(B, s) /\ Shows(x, B)
  <1> DEFINE t == Append(s, x)
  <1>1. /\ t \in Seq(Symbols) /\ Len(t) = Len(s) + 1 /\ t[Len(s) + 1] = x /\ Len(s) \in Nat
        /\ \A i \in 1 .. Len(s) : t[i] = s[i]
    BY AppendProperties, LenProperties
  <1> HIDE DEF t
  <1>2. DOMAIN s = 1 .. Len(s) /\ DOMAIN t = 1 .. Len(s) + 1
    BY <1>1, LenProperties
  <1>3. Covers(B, t) => Covers(B, s) /\ Shows(x, B)
    <2>1. \A i \in 1 .. Len(s) : i \in 1 .. Len(s) + 1
      BY <1>1
    <2>2. Len(s) + 1 \in 1 .. Len(s) + 1
      BY <1>1
    <2>3. QED
      BY <1>1, <1>2, <2>1, <2>2 DEF Covers
  <1>4. Covers(B, s) /\ Shows(x, B) => Covers(B, t)
    <2>1. \A i \in 1 .. Len(s) + 1 : i \in 1 .. Len(s) \/ i = Len(s) + 1
      BY <1>1
    <2>2. QED
      BY <1>1, <1>2, <2>1 DEF Covers
  <1>5. QED
    BY <1>3, <1>4 DEF t

(* A body that is rejected joins the others.                               *)
LEMMA BodyJoins ==
    ASSUME NEW A, Good(A), NEW body \in Seq(Words), K!sqldefRejectsExpression(body),
           NEW B, B = K!WithBody(A, body)
    PROVE  /\ Good(B) /\ Grows(A, B) /\ Has(B, body) /\ Len(B) <= Len(A) + 1
           /\ Has(A, body) => B = A
  <1>1. CASE Has(A, body)
    <2>1. B = A
      BY <1>1 DEF Has, K!WithBody
    <2>2. Len(A) \in Nat
      BY LenProperties DEF Good
    <2>3. QED
      BY <1>1, <2>1, <2>2 DEF Grows
  <1>2. CASE ~Has(A, body)
    <2>1. B = Append(A, body)
      BY <1>2 DEF Has, K!WithBody
    <2>2. /\ B \in Seq(Seq(Words)) /\ Len(B) = Len(A) + 1 /\ B[Len(A) + 1] = body /\ Len(A) \in Nat
          /\ \A i \in 1 .. Len(A) : B[i] = A[i]
      BY <2>1, AppendProperties, LenProperties DEF Good
    <2>3. DOMAIN A = 1 .. Len(A) /\ DOMAIN B = 1 .. Len(A) + 1
      BY <2>2, LenProperties DEF Good
    <2>4. \A i \in DOMAIN B : i \in DOMAIN A \/ i = Len(A) + 1
      BY <2>2, <2>3
    <2>5. IsInjective(B)
      <3>1. ASSUME NEW a \in DOMAIN B, NEW b \in DOMAIN B, B[a] = B[b] PROVE a = b
        <4>1. CASE a \in DOMAIN A /\ b \in DOMAIN A
          BY <2>2, <2>3, <3>1, <4>1 DEF Good, IsInjective
        <4>2. CASE a \in DOMAIN A /\ b = Len(A) + 1
          BY <1>2, <2>2, <2>3, <3>1, <4>2 DEF Has
        <4>3. CASE b \in DOMAIN A /\ a = Len(A) + 1
          BY <1>2, <2>2, <2>3, <3>1, <4>3 DEF Has
        <4>4. QED
          BY <2>4, <4>1, <4>2, <4>3
      <3>2. QED
        BY <3>1 DEF IsInjective
    <2>6. \A i \in DOMAIN B : K!sqldefRejectsExpression(B[i])
      BY <2>2, <2>3, <2>4 DEF Good
    <2>7. Grows(A, B)
      BY <2>2, <2>3 DEF Grows
    <2>8. Has(B, body)
      <3>1. Len(A) + 1 \in DOMAIN B
        BY <2>2, <2>3
      <3>2. QED
        BY <2>2, <3>1 DEF Has
    <2>9. QED
      BY <1>2, <2>2, <2>5, <2>6, <2>7, <2>8 DEF Good
  <1>3. QED
    BY <1>1, <1>2

(***************************************************************************)
(* The masker's walk over a legal text.                                    *)
(***************************************************************************)
MaskedAt(A, m, s) ==
    /\ Masks(Place(s), m)
    /\ Good(m.bodies) /\ Grows(A, m.bodies) /\ Covers(m.bodies, s)
    /\ Covers(A, s) => m.bodies = A
    /\ Len(m.bodies) <= Len(A) + Len(Saying(Shuttings, s))
    /\ m.out = Saying(Masked(m.bodies), s)

(* A symbol has a word and the words of an expression.                     *)
LEMMA SymbolParts ==
    ASSUME NEW x \in Symbols
    PROVE  x.word \in Words /\ x.body \in Seq(Words)
  BY DEF Symbols

(* What closeBody writes, in terms of the bodies behind it.                *)
LEMMA CloseBodyIs ==
    ASSUME NEW m, NEW word, NEW B,
           B = IF K!sqldefRejectsExpression(m.body) THEN K!WithBody(m.bodies, m.body) ELSE m.bodies
    PROVE  K!closeBody(m, word) =
              K!Walker(m.then, IF m.then = "columnList" THEN 1 ELSE 0, m.then,
                       Append(m.out \o Kept(B, m.body), word), << >>, B)
  BY DEF K!closeBody, Kept

(* What is written for an expression is its own words or a placeholder.    *)
LEMMA KeptType ==
    ASSUME NEW B, NEW body \in Seq(Words)
    PROVE  Kept(B, body) \in Seq(Words \cup Drops(B))
  <1>1. K!placeholderFor(B, body) \in Words \cup Drops(B)
    BY DEF Drops
  <1>2. <<K!placeholderFor(B, body)>> \in Seq(Words \cup Drops(B))
    BY <1>1
  <1>3. body \in Seq(Words \cup Drops(B))
    OBVIOUS
  <1>4. QED
    BY <1>2, <1>3 DEF Kept

(* What is written for a text goes on by what is written for a symbol.     *)
LEMMA WritingMore ==
    ASSUME NEW B, NEW s \in Seq(Symbols), NEW x \in Symbols
    PROVE  /\ Saying(Masked(B), Append(s, x)) = Saying(Masked(B), s) \o Masked(B)[x]
           /\ Saying(Sealed(B), Append(s, x)) = Saying(Sealed(B), s) \o Sealed(B)[x]
           /\ Saying(Shuttings, Append(s, x)) = Saying(Shuttings, s) \o Shuttings[x]
           /\ Saying(Masked(B), s) \in Seq(Words \cup Drops(B))
           /\ Saying(Sealed(B), s) \in Seq(Words \cup Drops(B) \cup Quotations)
           /\ Saying(Shuttings, s) \in Seq(Symbols)
  <1> DEFINE f == Masked(B)
             g == Sealed(B)
             V == Words \cup Drops(B)
             W == Words \cup Drops(B) \cup Quotations
  <1>1. f \in Sayings(Symbols, V)
    BY SayingsAre
  <1>2. g \in Sayings(Symbols, W)
    BY SayingsAre
  <1>3. Shuttings \in Sayings(Symbols, Symbols)
    BY SayingsAre
  <1> HIDE DEF f, g, V, W
  <1>4. Saying(f, Append(s, x)) = Saying(f, s) \o f[x] /\ Saying(f, s) \in Seq(V)
    BY <1>1, SayingMore, SayingType
  <1>5. Saying(g, Append(s, x)) = Saying(g, s) \o g[x] /\ Saying(g, s) \in Seq(W)
    BY <1>2, SayingMore, SayingType
  <1>6. /\ Saying(Shuttings, Append(s, x)) = Saying(Shuttings, s) \o Shuttings[x]
        /\ Saying(Shuttings, s) \in Seq(Symbols)
    BY <1>3, SayingMore, SayingType
  <1>7. QED
    BY <1>4, <1>5, <1>6 DEF f, g, V, W

(* A word appended to two sequences is appended to the second.             *)
LEMMA JoinedEnd ==
    ASSUME NEW W, NEW a \in Seq(W), NEW b \in Seq(W), NEW word \in W
    PROVE  Append(a \o b, word) = a \o (b \o <<word>>)
  <1>1. <<word>> \in Seq(W) /\ a \o b \in Seq(W)
    OBVIOUS
  <1>2. Append(a \o b, word) = (a \o b) \o <<word>>
    BY <1>1, AppendIsConcat
  <1>3. (a \o b) \o <<word>> = a \o (b \o <<word>>)
    BY <1>1, ConcatAssociative
  <1>4. QED
    BY <1>2, <1>3

(* The masker begins where it should.                                      *)
LEMMA MaskBegins ==
    ASSUME NEW A, Good(A)
    PROVE  MaskedAt(A, K!Beginning(A), << >>)
  <1> DEFINE m == K!Beginning(A)
  <1>1. m.at = "statements" /\ m.bodies = A /\ m.out = << >>
    BY DEF K!Beginning, K!Walker
  <1> HIDE DEF m
  <1>2. Masks(Place(<< >>), m)
    <2>1. Place(<< >>).at = "create"
      BY PlaceIs, NothingIsPlaced
    <2>2. QED
      BY <1>1, <2>1 DEF Masks, BodyPlaces, ListPlaces, ExpressionPlaces
  <1>3. Covers(A, << >>)
    BY DEF Covers
  <1>4. Len(A) \in Nat /\ Grows(A, A)
    BY LenProperties DEF Good, Grows
  <1>5. Saying(Shuttings, << >>) = << >> /\ Saying(Masked(A), << >>) = << >> /\ Len(<< >>) = 0
    BY SayingNothing
  <1>6. Len(A) <= Len(A) + Len(Saying(Shuttings, << >>))
    BY <1>4, <1>5
  <1>7. QED
    BY <1>1, <1>2, <1>3, <1>4, <1>5, <1>6 DEF MaskedAt, m

(* Outside of expressions it goes on where it should.                      *)
LEMMA MaskMoves ==
    ASSUME NEW A, Good(A), NEW s, Legal(s), NEW m, MaskedAt(A, m, s),
           NEW x \in Symbols, Moves(Place(s), x), x.role \in Plainly
    PROVE  MaskedAt(A, K!next(m, x.word), Append(s, x))
  <1> DEFINE n == K!next(m, x.word)
             t == Append(s, x)
  <1>0. s \in Seq(Symbols)
    BY DEF Legal
  <1>1. Masks(x, n) /\ n.out = Append(m.out, x.word) /\ n.bodies = m.bodies
    BY DEF MaskedAt, Moves, MasksOn, MasksTo
  <1> HIDE DEF n
  <1>2. Place(t) = x
    BY <1>0, PlaceIs
  <1>3. x.role # "body" /\ x.role # "close"
    BY DEF Plainly
  <1>4. \A B : Covers(B, t) <=> Covers(B, s)
    <2>1. \A B : Shows(x, B)
      BY <1>3 DEF Shows
    <2>2. QED
      BY <1>0, <2>1, CoversMore
  <1>5. Saying(Masked(m.bodies), t) = Append(Saying(Masked(m.bodies), s), x.word)
    <2>1. Masked(m.bodies)[x] = <<x.word>>
      BY <1>3 DEF Masked
    <2>2. Saying(Masked(m.bodies), t) = Saying(Masked(m.bodies), s) \o Masked(m.bodies)[x]
      BY <1>0, WritingMore
    <2>3. Saying(Masked(m.bodies), s) \in Seq(Words \cup Drops(m.bodies))
      BY <1>0, WritingMore
    <2>4. x.word \in Words \cup Drops(m.bodies)
      BY SymbolParts
    <2>5. QED
      BY <2>1, <2>2, <2>3, <2>4, AppendIsConcat
  <1>6. Len(Saying(Shuttings, t)) = Len(Saying(Shuttings, s))
    <2>1. Shuttings[x] = << >>
      BY <1>3 DEF Shuttings
    <2>2. Saying(Shuttings, t) = Saying(Shuttings, s) \o Shuttings[x]
      BY <1>0, WritingMore
    <2>3. Saying(Shuttings, s) \in Seq(Symbols)
      BY <1>0, WritingMore
    <2>4. QED
      BY <2>1, <2>2, <2>3, ConcatEmptySeq
  <1> HIDE DEF t
  <1>7. MaskedAt(A, n, t)
    BY <1>1, <1>2, <1>4, <1>5, <1>6 DEF MaskedAt
  <1>8. QED
    BY <1>7 DEF n, t

(* In an expression it keeps the words and writes nothing.                 *)
LEMMA MaskHides ==
    ASSUME NEW A, Good(A), NEW s, Legal(s), NEW m, MaskedAt(A, m, s),
           NEW x \in Symbols, Hides(Place(s), x)
    PROVE  MaskedAt(A, K!next(m, x.word), Append(s, x))
  <1> DEFINE n == K!next(m, x.word)
             t == Append(s, x)
  <1>0. s \in Seq(Symbols)
    BY DEF Legal
  <1>1. Masks(x, n) /\ n.out = m.out /\ n.bodies = m.bodies
    <2>1. n = K!hideBody(m, x.word) /\ Masks(x, K!hideBody(m, x.word))
      BY DEF MaskedAt, Hides
    <2>2. K!hideBody(m, x.word).out = m.out /\ K!hideBody(m, x.word).bodies = m.bodies
      BY DEF K!hideBody, K!Walker
    <2>3. QED
      BY <2>1, <2>2
  <1> HIDE DEF n
  <1>2. Place(t) = x
    BY <1>0, PlaceIs
  <1>3. x.role = "body" /\ x.role # "close"
    BY DEF Hides
  <1>4. \A B : Covers(B, t) <=> Covers(B, s)
    <2>1. \A B : Shows(x, B)
      BY <1>3 DEF Shows
    <2>2. QED
      BY <1>0, <2>1, CoversMore
  <1>5. Saying(Masked(m.bodies), t) = Saying(Masked(m.bodies), s)
    <2>1. Masked(m.bodies)[x] = << >>
      BY <1>3 DEF Masked
    <2>2. Saying(Masked(m.bodies), t) = Saying(Masked(m.bodies), s) \o Masked(m.bodies)[x]
      BY <1>0, WritingMore
    <2>3. Saying(Masked(m.bodies), s) \in Seq(Words \cup Drops(m.bodies))
      BY <1>0, WritingMore
    <2>4. QED
      BY <2>1, <2>2, <2>3, ConcatEmptySeq
  <1>6. Len(Saying(Shuttings, t)) = Len(Saying(Shuttings, s))
    <2>1. Shuttings[x] = << >>
      BY <1>3 DEF Shuttings
    <2>2. Saying(Shuttings, t) = Saying(Shuttings, s) \o Shuttings[x]
      BY <1>0, WritingMore
    <2>3. Saying(Shuttings, s) \in Seq(Symbols)
      BY <1>0, WritingMore
    <2>4. QED
      BY <2>1, <2>2, <2>3, ConcatEmptySeq
  <1> HIDE DEF t
  <1>7. MaskedAt(A, n, t)
    BY <1>1, <1>2, <1>4, <1>5, <1>6 DEF MaskedAt
  <1>8. QED
    BY <1>7 DEF n, t

(* Behind one it writes the words, or the placeholder if sqldef rejects    *)
(* them, with one new body at most.                                        *)
LEMMA MaskShuts ==
    ASSUME NEW A, Good(A), NEW s, Legal(s), NEW m, MaskedAt(A, m, s),
           NEW x \in Symbols, Shuts(Place(s), x)
    PROVE  MaskedAt(A, K!next(m, x.word), Append(s, x))
  <1> DEFINE n == K!next(m, x.word)
             t == Append(s, x)
             p == Place(s)
             B == IF K!sqldefRejectsExpression(m.body) THEN K!WithBody(m.bodies, m.body) ELSE m.bodies
             W == Words \cup Drops(B)
  <1>0. s \in Seq(Symbols)
    BY DEF Legal
  <1>1. x = Symbol(")", "close", "rest", << >>, p.column, p.body)
    BY DEF Shuts
  <1>2. /\ x.word = ")" /\ x.role = "close" /\ x.at = "rest" /\ x.column = p.column
        /\ x.body = p.body /\ x.body \in Seq(Words)
    BY <1>1, SymbolParts DEF Symbol
  <1>3. n = K!closeBody(m, ")") /\ m.body = x.body /\ m.then = AfterBody(p)
    BY <1>2 DEF MaskedAt, Shuts
  <1>4. n = K!Walker(m.then, IF m.then = "columnList" THEN 1 ELSE 0, m.then,
                     Append(m.out \o Kept(B, x.body), ")"), << >>, B)
    <2> HIDE DEF n
    <2>1. QED
      BY <1>3, CloseBodyIs
  <1>5. /\ n.out = Append(m.out \o Kept(B, x.body), ")") /\ n.bodies = B
        /\ n.at = m.then /\ n.depth = IF m.then = "columnList" THEN 1 ELSE 0
    <2> HIDE DEF n, B
    <2>1. QED
      BY <1>4 DEF K!Walker
  <1>6. Masks(x, n)
    <2>1. CASE p.column = 0
      <3>1. m.then = "columnList"
        BY <1>3, <2>1 DEF AfterBody
      <3>2. InEntries(x, n)
        BY <1>2, <1>5, <2>1, <3>1 DEF InEntries
      <3> HIDE DEF n
      <3>3. QED
        BY <1>2, <3>2 DEF Masks, BodyPlaces, ListPlaces, ExpressionPlaces
    <2>2. CASE p.column # 0
      <3>1. m.then = "columnBody"
        BY <1>3, <2>2 DEF AfterBody
      <3>2. InBody(n)
        BY <1>5, <3>1 DEF InBody
      <3> HIDE DEF n
      <3>3. QED
        BY <1>2, <3>2 DEF Masks, BodyPlaces, ListPlaces, ExpressionPlaces
    <2>3. QED
      BY <2>1, <2>2
  <1> HIDE DEF n
  <1>7. /\ Good(m.bodies) /\ Grows(A, m.bodies) /\ Covers(m.bodies, s)
        /\ Covers(A, s) => m.bodies = A
        /\ Len(m.bodies) <= Len(A) + Len(Saying(Shuttings, s))
        /\ m.out = Saying(Masked(m.bodies), s)
    BY DEF MaskedAt
  <1>8. /\ Good(B) /\ Grows(m.bodies, B) /\ Len(B) <= Len(m.bodies) + 1
        /\ Shows(x, B) /\ Len(m.bodies) \in Nat
        /\ Shows(x, m.bodies) => B = m.bodies
    <2>1. Len(m.bodies) \in Nat
      BY <1>7, LenProperties DEF Good
    <2>2. CASE K!sqldefRejectsExpression(m.body)
      <3>1. B = K!WithBody(m.bodies, m.body) /\ m.body \in Seq(Words)
        BY <1>2, <1>3, <2>2
      <3> HIDE DEF B
      <3>2. /\ Good(B) /\ Grows(m.bodies, B) /\ Has(B, m.body) /\ Len(B) <= Len(m.bodies) + 1
            /\ Has(m.bodies, m.body) => B = m.bodies
        BY <1>7, <2>2, <3>1, BodyJoins
      <3>3. QED
        BY <1>2, <1>3, <2>1, <2>2, <3>2 DEF Shows
    <2>3. CASE ~K!sqldefRejectsExpression(m.body)
      <3>1. B = m.bodies
        BY <2>3
      <3> HIDE DEF B
      <3>2. Grows(m.bodies, m.bodies)
        BY <2>1 DEF Grows
      <3>3. QED
        BY <1>2, <1>3, <1>7, <2>1, <2>3, <3>1, <3>2 DEF Shows
    <2>4. QED
      BY <2>2, <2>3
  <1> HIDE DEF B
  <1>9. Place(t) = x
    BY <1>0, PlaceIs
  <1>10. Grows(A, B) /\ Covers(B, t)
    <2>1. Grows(A, B)
      BY <1>7, <1>8, GrowsAgain
    <2>2. Covers(B, s)
      BY <1>7, <1>8, GrowingMore
    <2>3. QED
      BY <1>0, <1>8, <2>1, <2>2, CoversMore
  <1>11. Covers(A, t) => B = A
    <2>1. ASSUME Covers(A, t) PROVE B = A
      <3>1. Covers(A, s) /\ Shows(x, A)
        BY <1>0, <2>1, CoversMore
      <3>2. QED
        BY <1>7, <1>8, <3>1
    <2>2. QED
      BY <2>1
  <1>12. Len(B) <= Len(A) + Len(Saying(Shuttings, t))
    <2>1. Shuttings[x] = <<x>>
      BY <1>2 DEF Shuttings
    <2>2. Saying(Shuttings, t) = Saying(Shuttings, s) \o Shuttings[x]
      BY <1>0, WritingMore
    <2>3. Saying(Shuttings, s) \in Seq(Symbols)
      BY <1>0, WritingMore
    <2>4. Len(Saying(Shuttings, t)) = Len(Saying(Shuttings, s)) + 1 /\ Len(Saying(Shuttings, s)) \in Nat
      <3> DEFINE u == Saying(Shuttings, s)
      <3>1. u \in Seq(Symbols)
        BY <2>3
      <3> HIDE DEF u
      <3>2. Len(u \o <<x>>) = Len(u) + 1 /\ Len(u) \in Nat
        BY <3>1
      <3>3. QED
        BY <2>1, <2>2, <3>2 DEF u
    <2>5. Len(A) \in Nat /\ Len(B) \in Nat
      BY <1>8, LenProperties DEF Good
    <2>6. QED
      BY <1>7, <1>8, <2>4, <2>5
  <1>13. n.out = Saying(Masked(B), t)
    <2>1. m.out = Saying(Masked(B), s)
      BY <1>0, <1>7, <1>8, MaskedAlike
    <2>2. Masked(B)[x] = Kept(B, x.body) \o <<")">>
      BY <1>2 DEF Masked
    <2>3. Saying(Masked(B), t) = Saying(Masked(B), s) \o Masked(B)[x]
      BY <1>0, WritingMore
    <2>4. Saying(Masked(B), s) \in Seq(W) /\ Kept(B, x.body) \in Seq(W) /\ ")" \in W
      <3>1. Saying(Masked(B), s) \in Seq(W)
        BY <1>0, WritingMore
      <3>2. Kept(B, x.body) \in Seq(W)
        BY <1>2, KeptType
      <3>3. QED
        BY <3>1, <3>2 DEF Words
    <2>5. Append(Saying(Masked(B), s) \o Kept(B, x.body), ")")
          = Saying(Masked(B), s) \o (Kept(B, x.body) \o <<")">>)
      BY <2>4, JoinedEnd
    <2> HIDE DEF W
    <2>6. QED
      BY <1>5, <2>1, <2>2, <2>3, <2>4, <2>5
  <1> HIDE DEF t
  <1>14. MaskedAt(A, n, t)
    BY <1>5, <1>6, <1>8, <1>9, <1>10, <1>11, <1>12, <1>13 DEF MaskedAt
  <1>15. QED
    BY <1>14 DEF n, t

(* So it goes on along every arc of the grammar.                           *)
LEMMA MaskGoesOn ==
    ASSUME NEW A, Good(A), NEW s, Legal(s), NEW m, MaskedAt(A, m, s),
           Placed(Place(s)), NEW arc \in Arcs(Place(s)), arc.is \in Symbols
    PROVE  MaskedAt(A, K!next(m, arc.is.word), Append(s, arc.is))
  <1> DEFINE x == arc.is
             p == Place(s)
  <1>1. Steady(p, arc)
    BY ArcsAreSteady
  <1>2. \/ p.at \notin ExpressionPlaces /\ Moves(p, x)
        \/ p.at \in ExpressionPlaces /\ (Hides(p, x) \/ Shuts(p, x))
    BY EveryArc
  <1>3. CASE p.at \notin ExpressionPlaces /\ Moves(p, x)
    <2>1. x.role \in Plainly
      BY <1>1, <1>3 DEF Steady
    <2>2. QED
      BY <1>3, <2>1, MaskMoves
  <1>4. CASE Hides(p, x)
    BY <1>4, MaskHides
  <1>5. CASE Shuts(p, x)
    BY <1>5, MaskShuts
  <1>6. QED
    BY <1>2, <1>3, <1>4, <1>5

(* The masker finds the expressions where the grammar has them.            *)
LEMMA MaskFinds ==
    ASSUME NEW A, Good(A), NEW s, Legal(s)
    PROVE  MaskedAt(A, K!mask(WordsOf(s), A), s)
  <1> DEFINE P == {t \in Seq(Symbols) : MaskedAt(A, K!mask(WordsOf(t), A), t)}
  <1>1. << >> \in P
    <2>1. << >> \in Seq(Symbols) /\ K!mask(WordsOf(<< >>), A) = K!Beginning(A)
      BY WordsAre, MaskWalks
    <2>2. QED
      BY <2>1, MaskBegins
  <1>2. ASSUME NEW t \in P, NEW arc, Legal(t), Placed(Place(t)), arc \in Arcs(Place(t)), arc.is \in Symbols
        PROVE  Append(t, arc.is) \in P
    <2> DEFINE x == arc.is
    <2>1. t \in Seq(Symbols) /\ MaskedAt(A, K!mask(WordsOf(t), A), t) /\ Append(t, x) \in Seq(Symbols)
      BY <1>2, AppendProperties
    <2>2. WordsOf(t) \in Seq(Words) /\ WordsOf(Append(t, x)) = Append(WordsOf(t), x.word) /\ x.word \in Words
      BY <1>2, <2>1, WordsAre, SymbolParts
    <2>3. K!mask(WordsOf(Append(t, x)), A) = K!next(K!mask(WordsOf(t), A), x.word)
      BY <2>2, MaskWalks
    <2>4. MaskedAt(A, K!next(K!mask(WordsOf(t), A), x.word), Append(t, x))
      BY <1>2, <2>1, MaskGoesOn
    <2>5. QED
      BY <2>1, <2>3, <2>4
  <1>3. \A t : Legal(t) => t \in P
    <2> HIDE DEF P
    <2>1. QED
      BY <1>1, <1>2, ArcByArc
  <1>4. QED
    BY <1>3

(***************************************************************************)
(* The quoter's walk over what the masker writes.                          *)
(***************************************************************************)
LEMMA BalancedLess ==
    ASSUME NEW body \in Seq(Words), NEW word \in Words, NEW inner \in Nat,
           Balanced(Append(body, word), inner)
    PROVE  \E depth \in Nat : Balanced(body, depth) /\ inner = Q!Deeper(depth, word)
  <1> DEFINE n == Len(body)
             b == Append(body, word)
  <1>1. /\ n \in Nat /\ Len(b) = n + 1 /\ b[n + 1] = word
        /\ \A i \in 1 .. n : b[i] = body[i]
    BY AppendProperties, LenProperties
  <1> HIDE DEF b
  <1>2. PICK e \in [0 .. n + 1 -> Nat] :
           /\ e[0] = 0 /\ e[n + 1] = inner
           /\ \A i \in 1 .. n + 1 : e[i] = Q!Deeper(e[i - 1], b[i])
    <2>1. Balanced(b, inner)
      BY DEF b
    <2>2. QED
      BY <1>1, <2>1 DEF Balanced
  <1> DEFINE d == [i \in 0 .. n |-> e[i]]
  <1>3. d \in [0 .. n -> Nat] /\ d[0] = 0 /\ \A i \in 0 .. n : d[i] = e[i]
    BY <1>1, <1>2
  <1>4. e[n] \in Nat /\ d[n] = e[n]
    BY <1>1, <1>3
  <1> HIDE DEF d
  <1>5. \A i \in 1 .. n : d[i] = Q!Deeper(d[i - 1], body[i])
    <2>1. ASSUME NEW i \in 1 .. n PROVE d[i] = Q!Deeper(d[i - 1], body[i])
      <3>1. i \in 1 .. n + 1 /\ i \in 0 .. n /\ i - 1 \in 0 .. n
        BY <1>1
      <3>2. e[i] = Q!Deeper(e[i - 1], b[i])
        BY <1>2, <3>1
      <3>3. QED
        BY <1>1, <1>3, <3>1, <3>2
    <2>2. QED
      BY <2>1
  <1>6. Balanced(body, e[n])
    BY <1>3, <1>4, <1>5 DEF Balanced
  <1>7. inner = Q!Deeper(e[n], word)
    <2>1. n + 1 \in 1 .. n + 1 /\ (n + 1) - 1 = n
      BY <1>1
    <2>2. e[n + 1] = Q!Deeper(e[(n + 1) - 1], b[n + 1])
      BY <1>2, <2>1
    <2>3. QED
      BY <1>1, <1>2, <2>1, <2>2
  <1>8. QED
    BY <1>4, <1>6, <1>7

(* And no words leave no other depth than that.                            *)
LEMMA NothingBalanced ==
    ASSUME NEW depth, Balanced(<< >>, depth)
    PROVE  depth = 0
  BY DEF Balanced

Copying(q) == q.at \in {"columnBody", "opaqueParenClause"}

(* In an expression the quoter copies.                                     *)
LEMMA CopyStep ==
    ASSUME NEW q, Copying(q), NEW depth \in Nat, q.depth = depth + 1, NEW word,
           NEW inner \in Nat, inner = Q!Deeper(depth, word)
    PROVE  Q!next(q, word) = Q!Loop(q, q.at, inner + 1, word)
  <1>1. Q!Deeper(q.depth, word) = inner + 1
    <2>1. CASE word = "("
      BY <2>1 DEF Q!Deeper
    <2>2. CASE word = ")"
      <3>1. Q!Deeper(depth, word) = depth - 1
        BY <2>2 DEF Q!Deeper
      <3>2. Q!Deeper(q.depth, word) = (depth + 1) - 1
        BY <2>2 DEF Q!Deeper
      <3>3. QED
        BY <3>1, <3>2
    <2>3. CASE word \notin {"(", ")"}
      BY <2>3, Deepens
    <2>4. QED
      BY <2>1, <2>2, <2>3
  <1>2. CASE word = "space"
    <2>1. Q!next(q, word) = Q!Loop(q, q.at, q.depth, word)
      BY <1>2 DEF Q!next
    <2>2. Q!Deeper(q.depth, word) = q.depth
      BY <1>2, Deepens
    <2>3. QED
      BY <1>1, <2>1, <2>2
  <1>3. CASE word # "space" /\ q.at = "columnBody"
    <2>1. Q!next(q, word) = Q!columnBody(q, word)
      BY <1>3 DEF Q!next
    <2>2. q.depth # 0
      OBVIOUS
    <2>3. Q!columnBody(q, word) = Q!Loop(q, "columnBody", Q!Deeper(q.depth, word), word)
      BY <2>2 DEF Q!columnBody
    <2>4. QED
      BY <1>1, <1>3, <2>1, <2>3
  <1>4. CASE word # "space" /\ q.at = "opaqueParenClause"
    <2>1. Q!next(q, word) = Q!opaqueParenClause(q, word)
      BY <1>4 DEF Q!next
    <2>2. inner + 1 > 0
      OBVIOUS
    <2>3. Q!opaqueParenClause(q, word) = Q!Loop(q, "opaqueParenClause", inner + 1, word)
      BY <1>1, <1>4, <2>2 DEF Q!opaqueParenClause
    <2>4. QED
      BY <1>4, <2>1, <2>3
  <1>5. QED
    BY <1>2, <1>3, <1>4 DEF Copying

(* The parenthesis behind an expression ends the copying.                  *)
LEMMA CopyEnds ==
    ASSUME NEW q, Copying(q), q.depth = 1
    PROVE  Q!next(q, ")") = IF q.at = "columnBody" THEN Q!Loop(q, "columnBody", 0, ")")
                                                   ELSE Q!Loop(q, "columnList", 1, ")")
  <1>1. Q!Deeper(q.depth, ")") = 0
    BY Deepens
  <1>2. CASE q.at = "columnBody"
    <2>1. Q!next(q, ")") = Q!columnBody(q, ")")
      BY <1>2 DEF Q!next
    <2>2. Q!columnBody(q, ")") = Q!Loop(q, "columnBody", Q!Deeper(q.depth, ")"), ")")
      BY DEF Q!columnBody
    <2>3. QED
      BY <1>1, <1>2, <2>1, <2>2
  <1>3. CASE q.at = "opaqueParenClause"
    <2>1. Q!next(q, ")") = Q!opaqueParenClause(q, ")")
      BY <1>3 DEF Q!next
    <2>2. Q!opaqueParenClause(q, ")") = Q!Loop(q, "columnList", 1, ")")
      BY <1>1, <1>3 DEF Q!opaqueParenClause
    <2>3. QED
      BY <1>3, <2>1, <2>2
  <1>4. QED
    BY <1>2, <1>3 DEF Copying

(* The quoter copies an expression, however deep its parentheses are, and  *)
(* is then where it was.                                                   *)
LEMMA BodyCopied ==
    ASSUME NEW V, Words \subseteq V, NEW words \in Seq(V), NEW q, q = Q!walked(words), Copying(q), q.depth = 1,
           NEW U, q.out \in Seq(U), NEW body \in Seq(Words), Balanced(body, 0)
    PROVE  LET r == Q!walked(words \o body)
           IN  r.at = q.at /\ r.depth = 1 /\ r.out = q.out \o body
  <1> DEFINE Copied(b, depth) ==
               LET r == Q!walked(words \o b)
               IN  r.at = q.at /\ r.depth = depth + 1 /\ r.out = q.out \o b
             P == {b \in Seq(Words) : \A depth \in Nat : Balanced(b, depth) => Copied(b, depth)}
  <1>1. << >> \in P
    <2>1. << >> \in Seq(Words) /\ words \o << >> = words /\ q.out \o << >> = q.out
      BY ConcatEmptySeq
    <2>2. \A depth : Balanced(<< >>, depth) => depth = 0
      BY NothingBalanced
    <2>3. Copied(<< >>, 0)
      BY <2>1
    <2> HIDE DEF Copied
    <2>4. QED
      BY <2>1, <2>2, <2>3
  <1>2. ASSUME NEW b \in Seq(Words), NEW word \in Words, b \in P
        PROVE  Append(b, word) \in P
    <2>1. Append(b, word) \in Seq(Words)
      BY AppendProperties
    <2>2. ASSUME NEW inner \in Nat, Balanced(Append(b, word), inner)
          PROVE  Copied(Append(b, word), inner)
      <3>1. PICK depth \in Nat : Balanced(b, depth) /\ inner = Q!Deeper(depth, word)
        BY <2>2, BalancedLess
      <3> DEFINE r == Q!walked(words \o b)
      <3>2. r.at = q.at /\ r.depth = depth + 1 /\ r.out = q.out \o b
        BY <1>2, <3>1
      <3>3. Q!walked(words \o Append(b, word)) = Q!next(r, word)
        <4>1. words \o Append(b, word) = Append(words \o b, word) /\ words \o b \in Seq(V) /\ word \in V
          OBVIOUS
        <4>2. QED
          BY <4>1, QuoteWalks
      <3> HIDE DEF r
      <3>4. Q!next(r, word) = Q!Loop(r, r.at, inner + 1, word)
        <4>1. Copying(r)
          BY <3>2 DEF Copying
        <4>2. QED
          BY <3>1, <3>2, <4>1, CopyStep
      <3>5. Q!Loop(r, r.at, inner + 1, word).at = r.at /\ Q!Loop(r, r.at, inner + 1, word).depth = inner + 1
            /\ Q!Loop(r, r.at, inner + 1, word).out = Append(r.out, word)
        BY DEF Q!Loop, Q!Walker
      <3>6. Append(q.out \o b, word) = q.out \o Append(b, word)
        <4>1. q.out \in Seq(U \cup Words) /\ b \in Seq(U \cup Words) /\ word \in U \cup Words
          OBVIOUS
        <4>2. Append(q.out \o b, word) = q.out \o (b \o <<word>>)
          BY <4>1, JoinedEnd
        <4>3. b \o <<word>> = Append(b, word)
          BY AppendIsConcat
        <4>4. QED
          BY <4>2, <4>3
      <3>7. QED
        BY <3>2, <3>3, <3>4, <3>5, <3>6
    <2> HIDE DEF Copied
    <2>3. QED
      BY <2>1, <2>2
  <1>3. \A b \in Seq(Words) : b \in P
    <2> HIDE DEF P
    <2>1. QED
      BY <1>1, <1>2, WordByWord
  <1>4. Copied(body, 0)
    <2> HIDE DEF Copied
    <2>1. QED
      BY <1>3
  <1>5. QED
    BY <1>4

QuotedAt(B, q, s) == Quotes(Place(s), q) /\ q.out = Saying(Sealed(B), s)

(* A placeholder is no word of a text's.                                   *)
LEMMA PlaceholderIsNoWord ==
    ASSUME NEW B, Good(B), Len(B) <= Len(Placeholder), NEW body, Has(B, body)
    PROVE  K!placeholderFor(B, body) \notin Words
  <1> DEFINE i == CHOOSE i \in DOMAIN B : B[i] = body
  <1>1. i \in DOMAIN B
    BY DEF Has
  <1>2. i \in DOMAIN Placeholder
    <2>1. DOMAIN B = 1 .. Len(B) /\ Len(B) \in Nat
      BY LenProperties DEF Good
    <2>2. DOMAIN Placeholder = 1 .. Len(Placeholder) /\ Len(Placeholder) \in Nat
      BY PlaceholdersAreNew, LenProperties
    <2> HIDE DEF i
    <2>3. QED
      BY <1>1, <2>1, <2>2
  <1>3. Placeholder[i] \notin Words
    <2> HIDE DEF i
    <2>1. QED
      BY <1>2, PlaceholdersAreNew
  <1>4. QED
    BY <1>3 DEF K!placeholderFor

(* The quoter begins where it should.                                      *)
LEMMA QuoteBegins ==
    ASSUME NEW B
    PROVE  QuotedAt(B, Q!walked(Saying(Masked(B), << >>)), << >>)
  <1>1. Saying(Masked(B), << >>) = << >> /\ Saying(Sealed(B), << >>) = << >>
    BY SayingNothing
  <1>2. Q!walked(Saying(Masked(B), << >>)) = Q!Beginning
    BY <1>1, QuoteWalks
  <1>3. Q!Beginning.at = "statements" /\ Q!Beginning.out = << >>
    BY DEF Q!Beginning, Q!Walker
  <1>4. Place(<< >>).at = "create"
    BY PlaceIs, NothingIsPlaced
  <1>5. Quotes(Place(<< >>), Q!Beginning)
    BY <1>3, <1>4 DEF Quotes, BodyPlaces, ListPlaces, ExpressionPlaces
  <1>6. QED
    BY <1>1, <1>2, <1>3, <1>5 DEF QuotedAt

(* Outside of expressions it goes on where it should, and quotes the       *)
(* names.                                                                  *)
LEMMA QuoteMoves ==
    ASSUME NEW B, NEW s \in Seq(Symbols), QuotedAt(B, Q!walked(Saying(Masked(B), s)), s),
           NEW x \in Symbols, Moves(Place(s), x), x.role \in Plainly
    PROVE  QuotedAt(B, Q!walked(Saying(Masked(B), Append(s, x))), Append(s, x))
  <1> DEFINE ws == Saying(Masked(B), s)
             q == Q!walked(ws)
             n == Q!next(q, x.word)
             W == Words \cup Drops(B)
             V == Words \cup Drops(B) \cup Quotations
  <1>1. ws \in Seq(W) /\ x.word \in W
    BY WritingMore, SymbolParts
  <1>2. x.role # "body" /\ x.role # "close"
    BY DEF Plainly
  <1>3. Masked(B)[x] = <<x.word>> /\ Sealed(B)[x] = <<InQuotes(x)>>
    BY <1>2 DEF Masked, Sealed
  <1>4. Saying(Masked(B), Append(s, x)) = Append(ws, x.word)
    <2>1. Saying(Masked(B), Append(s, x)) = ws \o <<x.word>>
      <3>1. Saying(Masked(B), Append(s, x)) = Saying(Masked(B), s) \o Masked(B)[x]
        BY WritingMore
      <3>2. Saying(Sealed(B), Append(s, x)) = Saying(Sealed(B), s) \o Sealed(B)[x]
        BY WritingMore
      <3>3. QED
        BY <1>3, <3>1, <3>2
    <2> HIDE DEF ws, W
    <2>2. QED
      BY <1>1, <2>1, AppendIsConcat
  <1>5. Q!walked(Append(ws, x.word)) = n
    <2> HIDE DEF ws, W
    <2>1. QED
      BY <1>1, QuoteWalks
  <1>6. Quotes(x, n) /\ n.out = Append(q.out, InQuotes(x))
    BY DEF QuotedAt, Moves, QuotesOn, QuotesTo
  <1>7. q.out = Saying(Sealed(B), s)
    BY DEF QuotedAt
  <1>8. Saying(Sealed(B), Append(s, x)) = Append(q.out, InQuotes(x))
    <2>1. Saying(Sealed(B), Append(s, x)) = Saying(Sealed(B), s) \o <<InQuotes(x)>>
      <3>1. Saying(Masked(B), Append(s, x)) = Saying(Masked(B), s) \o Masked(B)[x]
        BY WritingMore
      <3>2. Saying(Sealed(B), Append(s, x)) = Saying(Sealed(B), s) \o Sealed(B)[x]
        BY WritingMore
      <3>3. QED
        BY <1>3, <3>1, <3>2
    <2>2. Saying(Sealed(B), s) \in Seq(V)
      BY WritingMore
    <2>3. InQuotes(x) \in V
      BY SymbolParts DEF InQuotes, Quotations
    <2> HIDE DEF q, V
    <2>4. Append(q.out, InQuotes(x)) = q.out \o <<InQuotes(x)>>
      BY <1>7, <2>2, <2>3, AppendIsConcat
    <2>5. QED
      BY <1>7, <2>1, <2>4
  <1>9. Place(Append(s, x)) = x
    BY PlaceIs
  <1> HIDE DEF q, n, ws
  <1>10. QED
    BY <1>4, <1>5, <1>6, <1>8, <1>9 DEF QuotedAt

(* In an expression nothing has been written for the quoter to read.       *)
LEMMA QuoteHides ==
    ASSUME NEW B, NEW s \in Seq(Symbols), QuotedAt(B, Q!walked(Saying(Masked(B), s)), s),
           NEW x \in Symbols, Hides(Place(s), x), Place(s).at \in ExpressionPlaces
    PROVE  QuotedAt(B, Q!walked(Saying(Masked(B), Append(s, x))), Append(s, x))
  <1> DEFINE q == Q!walked(Saying(Masked(B), s))
  <1>1. /\ x.role = "body" /\ x.at \in ExpressionPlaces /\ x.column = Place(s).column
    BY DEF Hides
  <1>2. Masked(B)[x] = << >> /\ Sealed(B)[x] = << >>
    BY <1>1 DEF Masked, Sealed
  <1>3. /\ Saying(Masked(B), Append(s, x)) = Saying(Masked(B), s)
        /\ Saying(Sealed(B), Append(s, x)) = Saying(Sealed(B), s)
    <2>1. /\ Saying(Masked(B), Append(s, x)) = Saying(Masked(B), s) \o << >>
          /\ Saying(Sealed(B), Append(s, x)) = Saying(Sealed(B), s) \o << >>
      <3>1. Saying(Masked(B), Append(s, x)) = Saying(Masked(B), s) \o Masked(B)[x]
        BY WritingMore
      <3>2. Saying(Sealed(B), Append(s, x)) = Saying(Sealed(B), s) \o Sealed(B)[x]
        BY WritingMore
      <3>3. QED
        BY <1>2, <3>1, <3>2
    <2>2. /\ Saying(Masked(B), s) \in Seq(Words \cup Drops(B))
          /\ Saying(Sealed(B), s) \in Seq(Words \cup Drops(B) \cup Quotations)
      BY WritingMore
    <2>3. QED
      BY <2>1, <2>2, ConcatEmptySeq
  <1>4. Quotes(Place(s), q)
    BY DEF QuotedAt
  <1> HIDE DEF q
  <1>5. q.depth = 1 /\ q.at = IF Place(s).column = 0 THEN "opaqueParenClause" ELSE "columnBody"
    BY <1>4 DEF Quotes
  <1>6. Quotes(x, q)
    BY <1>1, <1>5 DEF Quotes, ExpressionPlaces, ListPlaces, BodyPlaces
  <1>7. Place(Append(s, x)) = x
    BY PlaceIs
  <1>8. QED
    BY <1>3, <1>6, <1>7 DEF QuotedAt, q

(* Behind one it has copied the words, or the placeholder, and is where it *)
(* should be.                                                              *)
LEMMA QuoteShuts ==
    ASSUME NEW B, Good(B), Len(B) <= Len(Placeholder),
           NEW s \in Seq(Symbols), QuotedAt(B, Q!walked(Saying(Masked(B), s)), s),
           NEW x \in Symbols, Shuts(Place(s), x), Place(s).at \in ExpressionPlaces, Shows(x, B)
    PROVE  QuotedAt(B, Q!walked(Saying(Masked(B), Append(s, x))), Append(s, x))
  <1> DEFINE p == Place(s)
             ws == Saying(Masked(B), s)
             q == Q!walked(ws)
             k == Kept(B, x.body)
             r == Q!walked(ws \o k)
             n == Q!next(r, ")")
             W == Words \cup Drops(B)
             V == Words \cup Drops(B) \cup Quotations
  <1>1. x = Symbol(")", "close", "rest", << >>, p.column, p.body) /\ Balanced(p.body, 0)
    BY DEF Shuts
  <1>2. /\ x.word = ")" /\ x.role = "close" /\ x.at = "rest" /\ x.column = p.column
        /\ x.body = p.body /\ x.body \in Seq(Words)
    BY <1>1, SymbolParts DEF Symbol
  <1>3. Masked(B)[x] = k \o <<")">> /\ Sealed(B)[x] = k \o <<")">>
    BY <1>2 DEF Masked, Sealed
  <1>4. ws \in Seq(W) /\ ")" \in W /\ k \in Seq(W) /\ Words \subseteq W
    BY <1>2, KeptType, WritingMore DEF Words
  <1>5. Quotes(p, q) /\ q.out = Saying(Sealed(B), s) /\ Saying(Sealed(B), s) \in Seq(V)
    BY WritingMore DEF QuotedAt
  <1> HIDE DEF p, q, ws
  <1>6. q.depth = 1 /\ q.at = IF p.column = 0 THEN "opaqueParenClause" ELSE "columnBody"
    BY <1>5 DEF Quotes, p
  <1>7. Copying(q) /\ q.out \in Seq(V)
    BY <1>5, <1>6 DEF Copying
  <1>8. r.at = q.at /\ r.depth = 1 /\ r.out = q.out \o k
    <2>1. CASE ~K!sqldefRejectsExpression(x.body)
      <3>1. k = x.body
        BY <2>1 DEF Kept
      <3> HIDE DEF k, W, V
      <3>2. Balanced(x.body, 0)
        BY <1>1, <1>2
      <3>3. QED
        BY <1>2, <1>4, <1>6, <1>7, <3>1, <3>2, BodyCopied DEF q
    <2>2. CASE K!sqldefRejectsExpression(x.body)
      <3> DEFINE word == K!placeholderFor(B, x.body)
      <3>1. k = <<word>>
        BY <2>2 DEF Kept
      <3>2. Has(B, x.body)
        BY <1>2, <2>2 DEF Shows
      <3>3. word \notin Words
        BY <3>2, PlaceholderIsNoWord
      <3>4. word \in W /\ word \in V
        BY <1>2 DEF Drops
      <3> HIDE DEF word, k, W, V
      <3>5. ws \o k = Append(ws, word)
        BY <1>4, <3>1, <3>4, AppendIsConcat
      <3>6. r = Q!next(q, word)
        BY <1>4, <3>4, <3>5, QuoteWalks DEF q
      <3>7. Q!Deeper(0, word) = 0
        <4>1. word \notin {"(", ")"}
          BY <3>3 DEF Words
        <4>2. QED
          BY <4>1, Deepens
      <3> HIDE DEF r
      <3>8. r = Q!Loop(q, q.at, 0 + 1, word)
        <4>1. q.depth = 0 + 1
          BY <1>6
        <4>2. QED
          BY <1>7, <3>6, <3>7, <4>1, CopyStep
      <3>9. r.at = q.at /\ r.depth = 1 /\ r.out = Append(q.out, word)
        BY <3>8 DEF Q!Loop, Q!Walker
      <3>10. Append(q.out, word) = q.out \o k
        BY <1>7, <3>1, <3>4, AppendIsConcat
      <3>11. QED
        BY <3>9, <3>10
    <2>3. QED
      BY <2>1, <2>2
  <1>9. Saying(Masked(B), Append(s, x)) = Append(ws \o k, ")")
    <2>1. Saying(Masked(B), Append(s, x)) = ws \o (k \o <<")">>)
      <3>1. Saying(Masked(B), Append(s, x)) = Saying(Masked(B), s) \o Masked(B)[x]
        BY WritingMore
      <3>2. Saying(Sealed(B), Append(s, x)) = Saying(Sealed(B), s) \o Sealed(B)[x]
        BY WritingMore
      <3>3. QED
        BY <1>3, <3>1, <3>2 DEF ws
    <2> HIDE DEF k, W
    <2>2. QED
      BY <1>4, <2>1, JoinedEnd
  <1>10. Q!walked(Saying(Masked(B), Append(s, x))) = n
    <2>1. ws \o k \in Seq(W)
      <3> HIDE DEF k, W
      <3>1. QED
        BY <1>4
    <2> HIDE DEF k, W
    <2>2. QED
      BY <1>4, <1>9, <2>1, QuoteWalks
  <1>11. Saying(Sealed(B), Append(s, x)) = Append(r.out, ")")
    <2>1. Saying(Sealed(B), Append(s, x)) = q.out \o (k \o <<")">>)
      <3>1. Saying(Masked(B), Append(s, x)) = Saying(Masked(B), s) \o Masked(B)[x]
        BY WritingMore
      <3>2. Saying(Sealed(B), Append(s, x)) = Saying(Sealed(B), s) \o Sealed(B)[x]
        BY WritingMore
      <3>3. QED
        BY <1>3, <1>5, <3>1, <3>2
    <2>2. k \in Seq(V) /\ ")" \in V /\ q.out \in Seq(V)
      <3>1. W \subseteq V
        OBVIOUS
      <3> HIDE DEF k, W, V
      <3>2. QED
        BY <1>4, <1>7, <3>1
    <2> HIDE DEF k, r, V
    <2>3. Append(q.out \o k, ")") = q.out \o (k \o <<")">>)
      BY <2>2, JoinedEnd
    <2>4. QED
      BY <1>8, <2>1, <2>3
  <1>12. n = IF r.at = "columnBody" THEN Q!Loop(r, "columnBody", 0, ")") ELSE Q!Loop(r, "columnList", 1, ")")
    <2> HIDE DEF r
    <2>1. Copying(r)
      BY <1>7, <1>8 DEF Copying
    <2>2. QED
      BY <1>8, <2>1, CopyEnds
  <1> HIDE DEF n, r
  <1>13. n.out = Append(r.out, ")")
    BY <1>12 DEF Q!Loop, Q!Walker
  <1>14. Quotes(x, n)
    <2>1. CASE p.column = 0
      <3>1. n = Q!Loop(r, "columnList", 1, ")")
        BY <1>6, <1>8, <1>12, <2>1
      <3>2. InEntries(x, n)
        BY <1>2, <2>1, <3>1 DEF InEntries, Q!Loop, Q!Walker
      <3>3. QED
        BY <1>2, <3>2 DEF Quotes, BodyPlaces, ListPlaces, ExpressionPlaces
    <2>2. CASE p.column # 0
      <3>1. n = Q!Loop(r, "columnBody", 0, ")")
        BY <1>6, <1>8, <1>12, <2>2
      <3>2. InBody(n)
        BY <3>1 DEF InBody, Q!Loop, Q!Walker
      <3>3. QED
        BY <1>2, <3>2 DEF Quotes, BodyPlaces, ListPlaces, ExpressionPlaces
    <2>3. QED
      BY <2>1, <2>2
  <1>15. Place(Append(s, x)) = x
    BY PlaceIs
  <1>16. QED
    BY <1>10, <1>11, <1>13, <1>14, <1>15 DEF QuotedAt

(* The quoter finds the names where the grammar has them.                  *)
LEMMA QuoteFinds ==
    ASSUME NEW B, Good(B), Len(B) <= Len(Placeholder), NEW s, Legal(s), Covers(B, s)
    PROVE  QuotedAt(B, Q!walked(Saying(Masked(B), s)), s)
  <1> DEFINE Quoted(t) == QuotedAt(B, Q!walked(Saying(Masked(B), t)), t)
             P == {t \in Seq(Symbols) : Covers(B, t) => Quoted(t)}
  <1>1. << >> \in P
    BY QuoteBegins
  <1>2. ASSUME NEW t \in P, NEW arc, Legal(t), Placed(Place(t)), arc \in Arcs(Place(t)), arc.is \in Symbols
        PROVE  Append(t, arc.is) \in P
    <2> DEFINE x == arc.is
               p == Place(t)
    <2>1. t \in Seq(Symbols) /\ Append(t, x) \in Seq(Symbols)
      BY <1>2, AppendProperties
    <2>2. ASSUME Covers(B, Append(t, x)) PROVE Quoted(Append(t, x))
      <3>1. Covers(B, t) /\ Shows(x, B)
        BY <1>2, <2>1, <2>2, CoversMore
      <3>2. Quoted(t)
        BY <1>2, <3>1
      <3>3. \/ p.at \notin ExpressionPlaces /\ Moves(p, x)
            \/ p.at \in ExpressionPlaces /\ (Hides(p, x) \/ Shuts(p, x))
        BY <1>2, EveryArc
      <3>4. CASE p.at \notin ExpressionPlaces /\ Moves(p, x)
        <4>1. Steady(p, arc)
          BY <1>2, ArcsAreSteady
        <4>2. x.role \in Plainly
          BY <3>4, <4>1 DEF Steady
        <4>3. QED
          BY <1>2, <2>1, <3>2, <3>4, <4>2, QuoteMoves
      <3>5. CASE p.at \in ExpressionPlaces /\ Hides(p, x)
        BY <1>2, <2>1, <3>2, <3>5, QuoteHides
      <3>6. CASE p.at \in ExpressionPlaces /\ Shuts(p, x)
        BY <1>2, <2>1, <3>1, <3>2, <3>6, QuoteShuts
      <3>7. QED
        BY <3>3, <3>4, <3>5, <3>6
    <2> HIDE DEF Quoted
    <2>3. QED
      BY <2>1, <2>2
  <1>3. \A t : Legal(t) => t \in P
    <2> HIDE DEF P
    <2>1. QED
      BY <1>1, <1>2, ArcByArc
  <1>4. QED
    BY <1>3
===============================================================================
