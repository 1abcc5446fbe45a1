----------------------------- MODULE MCRenames -----------------------------
(* Renames for TLC: the edits of schema.sql, and which names look alike.   *)
EXTENDS Renames, TLC

CONSTANTS a, b

(* Names 1 and 3 are alike, and 2 and 4 a little less.                     *)
Alike ==
    [p \in (1 .. 4) \X (1 .. 4) |->
        IF p[1] = p[2] THEN 10
        ELSE IF {p[1], p[2]} = {1, 3} THEN 8
        ELSE IF {p[1], p[2]} = {2, 4} THEN 6 ELSE 2]

(* A table with the columns of a sequence of [name, type, hidden].         *)
TableOf(t, columns) ==
    [c \in Columns |->
        IF \E i \in DOMAIN columns : columns[i].name = c
        THEN LET i == CHOOSE i \in DOMAIN columns : columns[i].name = c
             IN  [type |-> columns[i].type, at |-> i,
                  hidden |-> columns[i].hidden, of |-> <<t, c>>]
        ELSE NoColumn]

Col(n, ty, h) == [name |-> n, type |-> ty, hidden |-> h]
Plain(n, ty) == Col(n, ty, FALSE)

Schema(tables) ==
    [t \in Tables |-> IF t \in DOMAIN tables THEN TableOf(t, tables[t]) ELSE NoTable]

Distinct(s) == \A i, j \in DOMAIN s : s[i].name = s[j].name => i = j
Lists(n, types) == {s \in [1 .. n -> [name : 1 .. 4, type : types, hidden : {FALSE}]] : Distinct(s)}

(* One table, its name and any two of its columns changed; the third stays.*)
Compound ==
    {[from |-> Schema(1 :> f), want |-> Schema(t :> w), taken |-> {}] :
        f \in {<<Plain(1, x), Plain(2, y)>> : x, y \in {a, b}},
        t \in {1, 2}, w \in Lists(2, {a, b}) \cup Lists(3, {a})}

(* Two tables to two tables: which was renamed to which.                   *)
Crossed ==
    {[from |-> Schema(1 :> <<Plain(1, a)>> @@ 2 :> <<Plain(2, x)>>),
      want |-> Schema(s :> <<Plain(p, a)>> @@ t :> <<Plain(q, y)>>), taken |-> {}] :
        x, y \in {a, b}, s \in {1, 3}, t \in {2, 4}, p \in {1, 2, 3}, q \in {2, 4}}

(* A name that a rename would take may be in use, by a generated column or *)
(* by a view.                                                              *)
Hiding ==
    {[from |-> Schema(1 :> <<Plain(1, a), Col(2, a, h)>>),
      want |-> Schema(t :> <<Col(p, a, i), Col(q, a, j)>>), taken |-> v] :
        h, i, j \in BOOLEAN, t \in {1, 3}, p \in {1, 2}, q \in {3, 4},
        v \in SUBSET {3}}

AllModes == SUBSET {"renames", "noRenames"}
AllEdits == Compound \cup Crossed \cup Hiding
=============================================================================
