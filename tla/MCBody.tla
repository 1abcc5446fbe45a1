------------------------------- MODULE MCBody -------------------------------
(***************************************************************************)
(* Body for TLC: the edits of schema.sql.  Each family varies one part of  *)
(* the schema and keeps the rest small.                                    *)
(***************************************************************************)
EXTENDS Body, TLC

CONSTANTS v, w, g

NoIndexes == [i \in Indexes |-> 0]
NoObjects == [o \in Objects |-> NoObject]

(* A table with column 1 as its key, in two readings of its other text.    *)
Column(is, parents) == [is |-> is, parents |-> parents]
NoColumn == Column("none", {})

Simple(rest) ==
    [columns |-> [c \in Columns |-> IF c < 3 THEN Column("plain", {}) ELSE NoColumn],
     key |-> 1, rowid |-> TRUE, auto |-> FALSE, rest |-> rest, indexes |-> NoIndexes]

Schema(tables, objects) ==
    [tables |-> [t \in Tables |-> IF t \in DOMAIN tables THEN tables[t] ELSE NoTable],
     objects |-> objects]

Pair(from_, want_) == [from |-> from_, want |-> want_]

-----------------------------------------------------------------------------
(* One table: columns, key, rowid and AUTOINCREMENT before and after.  Only*)
(* column 2 may be generated.                                              *)
OneTable ==
    {d \in [columns : {[c \in Columns |-> Column(k[c], {})] :
                         k \in {k \in [Columns -> {"none", "plain"} \cup Generated] :
                                  \A c \in Columns : k[c] \in Generated => c = 2}},
            key : Columns \cup {0}, rowid : BOOLEAN, auto : BOOLEAN,
            rest : {1}, indexes : {NoIndexes}] : Sound(d)}

ColumnEdits ==
    {Pair(Schema(1 :> b, NoObjects), Schema(1 :> a, NoObjects)) : b, a \in OneTable}

(* Three tables, with any foreign keys that are new: of a column that was  *)
(* there, so that all are rebuilt; or of a new one, so that one is rebuilt *)
(* if the rest of its text changes too.                                    *)
AnyParents == {q \in [Tables -> SUBSET Tables] : \A t \in Tables : t \notin q[t]}
KeyEdits ==
    LET keyed(rest, c, is, S) == [Simple(rest) EXCEPT !.columns[c] = Column(is, S)]
    IN  {Pair(Schema([t \in Tables |-> Simple(1)], NoObjects), Schema(to, NoObjects)) :
           to \in {[t \in Tables |-> keyed(2, 2, "plain", p[t])] : p \in AnyParents}
                 \cup {[t \in Tables |-> keyed(r[t], 3, is, p[t])] :
                          p \in AnyParents, r \in [Tables -> 1 .. 2],
                          is \in {"plain", "virtual"}}}

(* Two tables that may come, go or be rebuilt, and their indexes.          *)
Indexed(rests) ==
    {[Simple(r) EXCEPT !.indexes = n] : r \in rests, n \in [Indexes -> 0 .. 2]}
IndexSchemas(rests) ==
    {s \in {Schema(1 :> x @@ 2 :> y, NoObjects) :
              x, y \in Indexed(rests) \cup {NoTable}} : WellFormed(s)}
IndexEdits ==
    {Pair(f, a) : f \in IndexSchemas({1}), a \in IndexSchemas({1, 2})}

(* Views and a trigger over two tables and each other, each naming little; *)
(* the edit rebuilds table 1, and table 2 as well, removes it, or not.     *)
ViewDefinitions ==
    {NoObject} \cup {[on |-> Nothing, names |-> {r}] : r \in {1, 2} \cup Views}
TriggerDefinitions ==
    {NoObject} \cup {[on |-> t, names |-> {t, r}] : t, r \in {1, 2} \cup Views}
Readings == (Views \X ViewDefinitions) \cup (Triggers \X TriggerDefinitions)
ObjectSets ==
    {v :> x @@ w :> y @@ g :> z : x, y \in ViewDefinitions, z \in TriggerDefinitions}

Both == 1 :> Simple(1) @@ 2 :> Simple(1)
Targets == {1 :> Simple(2) @@ 2 :> Simple(1), 1 :> Simple(2) @@ 2 :> Simple(2),
            1 :> Simple(2)}

Sane == {o \in ObjectSets : WellFormed(Schema(Both, o))}

ObjectEdits(To(_, _)) ==
    {e \in {Pair(Schema(Both, o), Schema(t, To(o, r))) :
               o \in Sane, t \in Targets, r \in Readings} : WellFormed(e.want)}

(* View v and trigger g both change, and table 1 is rebuilt.               *)
ViewAndTrigger(x, z) == [NoObjects EXCEPT ![v] = x, ![g] = z]
PairEdits ==
    LET sane == {o \in {ViewAndTrigger(x, z) : x \in ViewDefinitions, z \in TriggerDefinitions} :
                   WellFormed(Schema(Both, o))}
    IN  {Pair(Schema(Both, o), Schema(1 :> Simple(2) @@ 2 :> Simple(1), p)) : o, p \in sane}

-----------------------------------------------------------------------------
(* (Nested to the right, where TLC is fastest.)                            *)
AllEdits ==
    ColumnEdits \cup (KeyEdits \cup (IndexEdits \cup (PairEdits
    \cup ObjectEdits(LAMBDA o, r : [o EXCEPT ![r[1]] = r[2]]))))

(* Two views over table 1, which is rebuilt, while both change.            *)
TwoViewEdits ==
    LET over(x, y) == [NoObjects EXCEPT ![v] = x, ![w] = y]
        sane == {o \in {over(x, y) : x, y \in ViewDefinitions} : WellFormed(Schema(Both, o))}
    IN  {Pair(Schema(Both, o), Schema(1 :> Simple(2) @@ 2 :> Simple(1), p)) : o, p \in sane}
=============================================================================
