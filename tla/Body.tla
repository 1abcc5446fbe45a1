-------------------------------- MODULE Body --------------------------------
(***************************************************************************)
(* What generate writes into a migration, and what its statements do:      *)
(* schemadiff finds what changed, Classify gates what destroys data,       *)
(* buildMigrationBody routes each table to ADD COLUMN or to a rebuild, and *)
(* internal/rebuild lists the statements of all rebuilds.  Then the body   *)
(* runs, statement by statement, as in verifyCandidate and in apply, on a  *)
(* database with rows.                                                     *)
(*                                                                         *)
(* The text of a statement is left out: a table is the columns it has and  *)
(* what the copy has to look at, a trigger or view is the set of relations *)
(* its text names.  sqldef writes each new column as schema.sql has it     *)
(* (module Sqldef); a new column whose default ADD COLUMN refuses changes  *)
(* the rest of the text.  Constraints that rows may violate are left out,  *)
(* and renames are resolved before this module begins.                     *)
(***************************************************************************)
EXTENDS Integers, FiniteSets, Sequences, FiniteSetsExt

CONSTANTS
    Tables,      \* names of tables, as numbers in their sorting order
    Views,
    Triggers,
    Columns,     \* names of columns, as positive numbers
    Spellings,   \* those that name the rowid where no column shadows them
    Indexes,     \* names of explicit indexes, as positive numbers: one name
                 \* space for all tables
    Versions,    \* what an index, or the rest of a table's text, may read
    NoTable,
    NoObject,
    Nothing,     \* a view is attached to nothing
    Edits,       \* pairs of a journal's schema and the schema.sql to reach
    RowSets,     \* sets of rowids a table may hold
    Mark         \* the highest rowid AUTOINCREMENT has given out

Objects == Views \cup Triggers
Relations == Tables \cup Views

(* Generated columns are VIRTUAL or STORED.  A column has the tables its   *)
(* foreign keys refer to.                                                  *)
Generated == {"virtual", "stored"}
ColumnDefinitions == [is : {"none", "plain"} \cup Generated, parents : SUBSET Tables]

(* An index that a table does not have is version 0; key 0 is none: key is *)
(* the column that is an alias of the rowid.                               *)
Definitions ==
    [columns : [Columns -> ColumnDefinitions],
     key : Columns \cup {0}, rowid : BOOLEAN, auto : BOOLEAN,
     rest : Versions, indexes : [Indexes -> Versions \cup {0}]]

Sound(d) ==
    /\ d.key # 0 => d.rowid /\ d.columns[d.key].is = "plain"
    /\ d.auto => d.key # 0
    /\ \E c \in Columns : d.columns[c].is = "plain"
    /\ \A c \in Columns : d.columns[c].is = "none" => d.columns[c].parents = {}

(* A table as it is stored: its definition with the indexes that exist,    *)
(* its rows, and its number in sqlite_sequence (0 if it has none).  Of a   *)
(* row, the id is the rowid, if the table has rowids.                      *)
Rows == [id : Nat \ {0}, values : [Columns -> Int]]

StoredTables == [def : Definitions, rows : SUBSET Rows, seq : Nat]

ObjectDefinitions == [on : Relations \cup {Nothing}, names : SUBSET Relations]

Schemas ==
    [tables : [Tables -> Definitions \cup {NoTable}],
     objects : [Objects -> ObjectDefinitions \cup {NoObject}]]

Has(s, r) ==
    \/ r \in Tables /\ s.tables[r] # NoTable
    \/ r \in Views /\ s.objects[r] # NoObject

(* SQLite replays the schema, and can use every trigger and view in it.    *)
WellFormed(s) ==
    /\ \A t \in Tables : s.tables[t] # NoTable => Sound(s.tables[t])
    /\ \A i \in Indexes, t, u \in Tables :
          /\ s.tables[t] # NoTable /\ s.tables[t].indexes[i] # 0
          /\ s.tables[u] # NoTable /\ s.tables[u].indexes[i] # 0
          => t = u
    /\ \A o \in Objects : s.objects[o] # NoObject =>
          /\ \A r \in s.objects[o].names : Has(s, r)
          /\ IF o \in Views THEN s.objects[o].on = Nothing
             ELSE s.objects[o].on \in s.objects[o].names
    /\ \E depth \in [Views -> 1 .. Cardinality(Views)] : \A v, w \in Views :
          s.objects[v] # NoObject /\ w \in s.objects[v].names => depth[w] < depth[v]

ASSUME NamesAssumption ==
    /\ Tables \subseteq Nat /\ Columns \subseteq Nat \ {0}
    /\ Indexes \subseteq Nat \ {0}
    /\ IsFiniteSet(Tables) /\ IsFiniteSet(Objects) /\ IsFiniteSet(Indexes)
    /\ Tables \cap Objects = {} /\ Views \cap Triggers = {}
    /\ Spellings \subseteq Columns
    /\ Versions \subseteq Nat \ {0}
    /\ NoTable \notin Definitions \cup StoredTables /\ NoObject \notin ObjectDefinitions
    /\ Nothing \notin Tables \cup Objects
ASSUME EditsAssumption ==
    \A e \in Edits :
        /\ e.from \in Schemas /\ WellFormed(e.from)
        /\ e.want \in Schemas /\ WellFormed(e.want)
ASSUME RowsAssumption ==
    RowSets \subseteq SUBSET (1 .. Mark) /\ Mark \in Nat \ {0}

-----------------------------------------------------------------------------
(***************************************************************************)
(* Diff, Classify and needsRebuild.                                        *)
(***************************************************************************)
Present(s) == {t \in Tables : s.tables[t] # NoTable}
Added(from, want) == Present(want) \ Present(from)
Removed(from, want) == Present(from) \ Present(want)
Changed(from, want) ==
    {t \in Present(from) \cap Present(want) : from.tables[t] # want.tables[t]}

(* PRAGMA table_info lists no generated columns.                           *)
AddedColumns(b, a) ==
    {c \in Columns : b.columns[c].is # "plain" /\ a.columns[c].is = "plain"}
(* Mutant: generated columns are listed, so none is removed by becoming one. *)
RemovedNames(b, a) ==
    {c \in Columns : b.columns[c].is = "plain" /\ a.columns[c].is = "none"}
RemovedColumns(b, a) ==
    {c \in Columns : b.columns[c].is = "plain" /\ a.columns[c].is # "plain"}

Destructive(from, want) ==
    \/ Removed(from, want) # {}
    \/ \E t \in Changed(from, want) :
          RemovedColumns(from.tables[t], want.tables[t]) # {}

(* Mutant: what was removed from a table is not looked for.                *)
NeedsRebuildForText(b, a) ==
    [b EXCEPT !.columns = a.columns, !.indexes = a.indexes] # a

NewGenerated(b, a) ==
    {c \in Columns : b.columns[c].is = "none" /\ a.columns[c].is \in Generated}

(* A rebuild, unless adding columns, and the explicit indexes, is all that *)
(* takes the one definition to the other; also if the new columns are all  *)
(* generated, so that table_info shows none of them, or if a generated one *)
(* has a foreign key.  Beside another new column a generated one is added: *)
(* additiveChangeReproducesAfter replays the ADD COLUMNs on an empty table.*)
NeedsRebuild(b, a) ==
    \/ [b EXCEPT !.columns = a.columns, !.indexes = a.indexes] # a
    \/ \E c \in Columns : b.columns[c].is # "none" /\ b.columns[c] # a.columns[c]
    \/ \E c \in NewGenerated(b, a) :
          AddedColumns(b, a) = {} \/ a.columns[c].parents # {}

Rebuilt(from, want) ==
    {t \in Changed(from, want) : NeedsRebuild(from.tables[t], want.tables[t])}

-----------------------------------------------------------------------------
(***************************************************************************)
(* Triggers and views that must be away while tables are rebuilt.          *)
(***************************************************************************)

(* Mutant: those that name a rebuilt table, and no more.                   *)
AffectedDirectly(tables, s) ==
    {o \in Objects : s.objects[o] # NoObject /\ s.objects[o].names \cap tables # {}}

(* affectedObjects: those that name a rebuilt table, or another of them;   *)
(* passes are made until one adds nothing, so they are the fewest.         *)
ClosedUnder(missing, tables, s) ==
    \A o \in Objects :
        s.objects[o] # NoObject /\ s.objects[o].names \cap (tables \cup missing) # {}
        => o \in missing

Affected(tables, s) ==
    {o \in Objects :
        \A missing \in SUBSET Objects : ClosedUnder(missing, tables, s) => o \in missing}

(* Mutant: the objects of the journal only.                                *)
DroppedBefore(from, want) == Affected(Rebuilt(from, want), from)

(* mergeAffected and stillDefined.                                         *)
Dropped(from, want) ==
    Affected(Rebuilt(from, want), from) \cup Affected(Rebuilt(from, want), want)
Recreated(from, want) ==
    {o \in Dropped(from, want) : want.objects[o] # NoObject}

(* Each of S in the order of their names, the greatest last: what visit    *)
(* makes of an order while the tables in busy are being visited.           *)
VisitEach(visit, order, busy, S) ==
    MapThenFoldSet(LAMBDA t, before : visit[<<before, busy, t>>],
                   order, LAMBDA t : t, Max, S)

(* Mutant: tables are rebuilt in the order of their names.                 *)
OrderByName(tables, want) ==
    VisitEach([v \in Seq(Tables) \X {{}} \X Tables |-> Append(v[1], v[3])], <<>>, {}, tables)

(* orderByDependency: depth first along the foreign keys, in name order; a *)
(* table that is being visited is not waited for.  None is visited inside  *)
(* its own visit, so that visits are no deeper than there are tables.      *)
ParentsOf(d) == UNION {d.columns[c].parents : c \in Columns}
Parents(t, tables, want) == (ParentsOf(want.tables[t]) \cap tables) \ {t}

OrderByDependency(tables, want) ==
    LET visit[depth \in 0 .. Cardinality(Tables)] ==
            [v \in Seq(Tables) \X (SUBSET Tables) \X Tables |->
                LET order == v[1]
                    busy == v[2]
                    t == v[3]
                IN IF depth = 0 \/ t \in Range(order) \cup busy THEN order
                   ELSE Append(VisitEach(visit[depth - 1], order, busy \cup {t},
                                         Parents(t, tables, want)),
                               t)]
    IN  VisitEach(visit[Cardinality(Tables)], <<>>, {}, tables)

-----------------------------------------------------------------------------
(***************************************************************************)
(* buildMigrationBody and Statements.  A statement of the body says what   *)
(* it does, to which table or object, or to which index of a table, and    *)
(* where it stands: its phase, for one kind of change to all tables; the   *)
(* place of its table in this phase; and its step among those of a table.  *)
(***************************************************************************)
Statement(phase, place, step, op, on, i) ==
    [phase |-> phase, place |-> place, step |-> step, op |-> op, at |-> on, index |-> i]

(* Indexes come by name; index 0 is none.                                  *)
Before(s, u) ==
    \/ s.phase < u.phase
    \/ s.phase = u.phase /\ s.place < u.place
    \/ s.phase = u.phase /\ s.place = u.place /\ s.step < u.step
    \/ /\ s.phase = u.phase /\ s.place = u.place /\ s.step = u.step
       /\ s.index < u.index

IndexesOf(d) == {i \in Indexes : d.indexes[i] # 0}

OnIndexes(phase, place, step, op, t, S) ==
    {Statement(phase, place, step, op, t, i) : i \in S}

Altered(from, want) == Changed(from, want) \ Rebuilt(from, want)

NewIndexes(b, a) == {i \in IndexesOf(a) : a.indexes[i] # b.indexes[i]}
OldIndexes(b, a) == {i \in IndexesOf(b) : a.indexes[i] # b.indexes[i]}

(* ADD COLUMN for tables that need no rebuild; then their explicit indexes,*)
(* new ones first; then the tables that come and those that go.            *)
Direct(from, want) ==
    LET b(t) == from.tables[t]
        a(t) == want.tables[t]
        each(phase, op, T) == {Statement(phase, t, 0, op, t, 0) : t \in T}
    IN     each(1, "addColumns", {t \in Altered(from, want) : AddedColumns(b(t), a(t)) # {}})
      \cup (UNION {OnIndexes(2, t, 0, "createIndex", t, NewIndexes(b(t), a(t))) :
                      t \in Altered(from, want)})
      \cup (UNION {OnIndexes(2, t, 1, "dropIndex", t, OldIndexes(b(t), a(t))) :
                      t \in Altered(from, want)})
      \cup each(3, "createTable", Added(from, want))
      \cup (UNION {OnIndexes(3, t, 1, "createIndex", t, IndexesOf(a(t))) :
                      t \in Added(from, want)})
      \cup each(4, "dropTable", Removed(from, want))

(* Every object goes, every table is copied, every table is replaced, then *)
(* the indexes, the views and the triggers come back.  Among themselves    *)
(* views, and triggers, may come and go in any order.                      *)
Statements(from, want) ==
    LET order == OrderByDependency(Rebuilt(from, want), want)
        a(n) == want.tables[order[n]]
        each(phase, step, op, places) ==
            {Statement(phase, n, step, op, order[n], 0) : n \in places}
        objects(phase, op, S) == {Statement(phase, 0, 0, op, o, 0) : o \in S}
    IN     objects(5, "dropObject", Dropped(from, want) \cap Triggers)
      \cup objects(6, "dropObject", Dropped(from, want) \cap Views)
      \cup each(7, 0, "createNew", DOMAIN order)
      \cup each(7, 1, "copy", DOMAIN order)
      \cup each(7, 2, "carry", {n \in DOMAIN order : a(n).auto})
      \cup each(8, 0, "dropTable", DOMAIN order)
      \cup each(8, 1, "rename", DOMAIN order)
      \cup (UNION {OnIndexes(9, n, 0, "createIndex", order[n], IndexesOf(a(n))) :
                      n \in DOMAIN order})
      \cup objects(10, "createObject", Recreated(from, want) \cap Views)
      \cup objects(11, "createObject", Recreated(from, want) \cap Triggers)

-----------------------------------------------------------------------------
(***************************************************************************)
(* The copy of a table's rows.                                             *)
(***************************************************************************)
Named(d) == {c \in Columns : d.columns[c].is # "none"}

(* Mutant: rowids are carried into a key only.                             *)
CarriedToKey(b, a) ==
    IF b.rowid /\ a.rowid /\ a.key # 0 /\ a.key \notin Named(b) THEN "key" ELSE "none"

(* rowidColumn: where the copy carries the rowids, if it names them.       *)
Carried(b, a) ==
    IF ~b.rowid \/ ~a.rowid THEN "none"
    ELSE IF a.key # 0
         THEN IF a.key \in Named(b) \/ Spellings \subseteq Named(b) THEN "none" ELSE "key"
         ELSE IF Spellings \subseteq Named(b) \cup Named(a) THEN "none" ELSE "rowid"

Copied(b, a) == {c \in Named(b) : a.columns[c].is = "plain"}

(* Else rebuildTable finds nothing to select.                              *)
Copyable(b, a) == Copied(b, a) # {} \/ Carried(b, a) = "rowid"

(* What a column holds: nothing, as it does not exist; its default; or     *)
(* what SQLite computes for it.                                            *)
Missing == -1
Default == -2
Computed == -3
Given(c, id) == c * (Mark + 1) + id

(* Mutant: a column the old table lacks is selected all the same.          *)
NewRowUnmapped(b, a, rows, r) ==
    [id |-> r.id,
     values |-> [c \in Columns |->
                   IF a.columns[c].is \in Generated THEN Computed ELSE r.values[c]]]

(* INSERT INTO new (...) SELECT ... FROM old.  SQLite numbers the rows of  *)
(* a rowid table when the copy names neither rowid nor key; the id of a    *)
(* row of another table only tells it from the others.                     *)
NewRow(b, a, rows, r) ==
    LET id == IF ~a.rowid \/ Carried(b, a) # "none" THEN r.id
              ELSE IF a.key \in Copied(b, a) THEN r.values[a.key]
              ELSE Cardinality({q \in rows : q.id <= r.id})
    IN  [id |-> id,
         values |-> [c \in Columns |->
                       IF a.columns[c].is = "none" THEN Missing
                       ELSE IF a.columns[c].is \in Generated THEN Computed
                       ELSE IF c = a.key THEN id
                       ELSE IF c \in Copied(b, a) THEN r.values[c]
                       ELSE Default]]

(* ADD COLUMN fills the new columns, or lets SQLite compute them.          *)
FilledRow(b, a, r) ==
    [r EXCEPT !.values =
        [c \in Columns |-> IF b.columns[c] = a.columns[c] THEN @[c]
                           ELSE IF a.columns[c].is = "plain" THEN Default
                           ELSE Computed]]

Highest(rows) == IF rows = {} THEN 0 ELSE Max({r.id : r \in rows})

-----------------------------------------------------------------------------
VARIABLES
    from,      \* the schema the journal gives
    want,      \* schema.sql
    allow,     \* --allow-destructive
    rows,      \* what each table held before
    db,        \* the database: what exists, and what tables hold
    new,       \* the tables named _sqlite_migrate_new
    pc,
    todo,      \* statements that have not run
    outcome

vars == <<from, want, allow, rows, db, new, pc, todo, outcome>>
inputs == <<from, want, allow, rows>>

Table(d, held, seq) == [def |-> d, rows |-> held, seq |-> seq]

Bare(d) == [d EXCEPT !.indexes = [i \in Indexes |-> 0]]

Held(d, ids) ==
    {[id |-> id,
      values |-> [c \in Columns |-> IF d.columns[c].is = "none" THEN Missing
                                    ELSE IF c = d.key THEN id ELSE Given(c, id)]] :
        id \in ids}

Init ==
    /\ \E e \in Edits : from = e.from /\ want = e.want
    /\ allow \in BOOLEAN
    /\ \E ids \in RowSets :
          rows = [t \in Tables |->
                    IF from.tables[t] = NoTable THEN {} ELSE Held(from.tables[t], ids)]
    /\ db = [tables |-> [t \in Tables |->
                           IF from.tables[t] = NoTable THEN NoTable
                           ELSE Table(from.tables[t], rows[t],
                                      IF from.tables[t].auto THEN Mark ELSE 0)],
             objects |-> from.objects]
    /\ new = [t \in Tables |-> NoTable]
    /\ pc = "generate"
    /\ todo = {}
    /\ outcome = "none"

End(o) == pc' = "end" /\ outcome' = o

(* generate: nothing to do, the destructive gate, or a body to verify.     *)
Generate ==
    /\ pc = "generate"
    /\ \/ /\ from.tables = want.tables
          /\ End("unchanged")
          /\ UNCHANGED todo
       \/ /\ Destructive(from, want) /\ ~allow
          /\ End("refused")
          /\ UNCHANGED todo
       \/ /\ from.tables # want.tables
          /\ Destructive(from, want) => allow
          /\ \E t \in Rebuilt(from, want) : ~Copyable(from.tables[t], want.tables[t])
          /\ End("refused")
          /\ UNCHANGED todo
       \/ /\ from.tables # want.tables
          /\ Destructive(from, want) => allow
          /\ \A t \in Rebuilt(from, want) : Copyable(from.tables[t], want.tables[t])
          /\ todo' = Direct(from, want) \cup Statements(from, want)
          /\ pc' = "run"
          /\ UNCHANGED outcome
    /\ UNCHANGED <<inputs, db, new>>

(* The next statement runs.                                                *)
Due == CHOOSE s \in todo : \A u \in todo : ~Before(u, s)
at == Due.at
index == Due.index

Runs(op) ==
    /\ pc = "run"
    /\ todo # {}
    /\ Due.op = op
    /\ todo' = todo \ {Due}
    /\ UNCHANGED <<inputs, pc, outcome>>

Without(objects, dropped) ==
    [o \in Objects |->
        IF objects[o] # NoObject /\ (o = dropped \/ objects[o].on = dropped)
        THEN NoObject ELSE objects[o]]

(* DROP TRIGGER and DROP VIEW IF EXISTS: a view takes its triggers along.  *)
DropObject ==
    /\ Runs("dropObject")
    /\ db' = [db EXCEPT !.objects = Without(@, at)]
    /\ UNCHANGED new

(* DROP TABLE takes triggers, indexes and the number in sqlite_sequence    *)
(* along, but no view: with foreign_keys off no other row either.          *)
DropTable ==
    /\ Runs("dropTable")
    /\ db' = [db EXCEPT !.tables[at] = NoTable, !.objects = Without(@, at)]
    /\ UNCHANGED new

CreateTable ==
    /\ Runs("createTable")
    /\ db' = [db EXCEPT !.tables[at] = Table(Bare(want.tables[at]), {}, 0)]
    /\ UNCHANGED new

(* SQLite adds a STORED column to a table without rows only.               *)
GainsStored(b, a) == \E c \in NewGenerated(b, a) : a.columns[c].is = "stored"
AddRefused(t) ==
    db.tables[t].rows # {} /\ GainsStored(from.tables[t], want.tables[t])

AddColumns ==
    /\ Runs("addColumns")
    /\ ~AddRefused(at)
    /\ LET b == from.tables[at]
           a == want.tables[at]
       IN  db' = [db EXCEPT
                    !.tables[at].def.columns = a.columns,
                    !.tables[at].rows = {FilledRow(b, a, r) : r \in @}]
    /\ UNCHANGED new

HasIndex(t, i) == t # NoTable /\ t.def.indexes[i] # 0

CreateIndex ==
    /\ Runs("createIndex")
    /\ \A t \in Tables : ~HasIndex(db.tables[t], index)
    /\ db' = [db EXCEPT !.tables[at].def.indexes[index] = want.tables[at].indexes[index]]
    /\ UNCHANGED new

DropIndex ==
    /\ Runs("dropIndex")
    /\ db' = [db EXCEPT !.tables = [t \in Tables |->
                IF HasIndex(@[t], index) THEN [@[t] EXCEPT !.def.indexes[index] = 0]
                ELSE @[t]]]
    /\ UNCHANGED new

CreateNew ==
    /\ Runs("createNew")
    /\ new' = [new EXCEPT ![at] = Table(Bare(want.tables[at]), {}, 0)]
    /\ UNCHANGED db

Copy ==
    /\ Runs("copy")
    /\ LET old == db.tables[at]
           copied == {NewRow(old.def, new[at].def, old.rows, r) : r \in old.rows}
       IN  new' = [new EXCEPT ![at] =
                     Table(@.def, copied, IF @.def.auto THEN Highest(copied) ELSE 0)]
    /\ UNCHANGED db

(* Mutant: the number stays what the copy made of it.                      *)
CarryNothing == Runs("carry") /\ UNCHANGED <<db, new>>

(* UPDATE sqlite_sequence raises the new table's number, if it has one;    *)
(* INSERT gives it the old one's, if it has none.                          *)
Carry ==
    /\ Runs("carry")
    /\ new' = [new EXCEPT ![at].seq = Max({@, db.tables[at].seq})]
    /\ UNCHANGED db

(* ALTER TABLE RENAME first compiles every trigger and view, and fails if  *)
(* one names a relation that is not there.                                 *)
There(r) == IF r \in Tables THEN db.tables[r] # NoTable ELSE db.objects[r] # NoObject

Compiles ==
    \A o \in Objects : db.objects[o] # NoObject =>
        \A r \in db.objects[o].names : There(r)

Rename ==
    /\ Runs("rename")
    /\ Compiles
    /\ db' = [db EXCEPT !.tables[at] = new[at]]
    /\ new' = [new EXCEPT ![at] = NoTable]

(* CREATE VIEW looks nothing up; CREATE TRIGGER looks up what it is on.    *)
CreateObject ==
    /\ Runs("createObject")
    /\ at \in Triggers => There(want.objects[at].on)
    /\ db' = [db EXCEPT !.objects[at] = want.objects[at]]
    /\ UNCHANGED new

(* The statement fails: verifyCandidate refuses the body, but for a STORED *)
(* column, since its tables are empty; there it is apply that fails.       *)
Fails ==
    /\ pc = "run"
    /\ todo # {}
    /\ \/ Due.op = "addColumns" /\ AddRefused(at)
       \/ Due.op = "createIndex" /\ \E t \in Tables : HasIndex(db.tables[t], index)
       \/ Due.op = "rename" /\ ~Compiles
       \/ /\ Due.op = "createObject" /\ at \in Triggers
          /\ ~There(want.objects[at].on)
    /\ End("failed")
    /\ UNCHANGED <<inputs, db, new, todo>>

Finish ==
    /\ pc = "run"
    /\ todo = {}
    /\ End("done")
    /\ UNCHANGED <<inputs, db, new, todo>>

Next ==
    \/ Generate
    \/ DropObject \/ DropTable \/ CreateTable \/ AddColumns
    \/ CreateIndex \/ DropIndex
    \/ CreateNew \/ Copy \/ Carry \/ Rename \/ CreateObject
    \/ Fails \/ Finish

Spec == Init /\ [][Next]_vars

-----------------------------------------------------------------------------
Stored(table) ==
    /\ table \in StoredTables /\ Sound(table.def)
    /\ table.seq # 0 => table.def.auto
    /\ \A r \in table.rows :
          /\ \A c \in Columns : (r.values[c] = Missing) <=> (table.def.columns[c].is = "none")
          /\ table.def.key # 0 => r.values[table.def.key] = r.id
    /\ \A q, r \in table.rows : q.id = r.id => q = r

TypeOK ==
    /\ \A t \in Tables : db.tables[t] = NoTable \/ Stored(db.tables[t])
    /\ \A t \in Tables : new[t] = NoTable \/ Stored(new[t])
    /\ db.objects \in [Objects -> ObjectDefinitions \cup {NoObject}]
    /\ pc \in {"generate", "run", "end"}
    /\ outcome \in {"none", "unchanged", "refused", "failed", "done"}

(* An index keeps its table and its version, or its name is used once.     *)
IndexesKept ==
    \A i \in Indexes, t, u \in Tables :
        /\ from.tables[t] # NoTable /\ from.tables[t].indexes[i] # 0
        /\ want.tables[u] # NoTable /\ want.tables[u].indexes[i] # 0
        => t = u /\ from.tables[t].indexes[i] = want.tables[u].indexes[i]

(* A table with rows is not rebuilt and gains a STORED column.             *)
StoredOnRows ==
    \E t \in Altered(from, want) :
        rows[t] # {} /\ GainsStored(from.tables[t], want.tables[t])

(* preserve.go: whatever graph triggers and views form over the tables     *)
(* that are rebuilt, every statement of the body succeeds, if the edit     *)
(* redefines no index and leaves triggers and views alone, or but one of   *)
(* them when no table goes, and if no table with rows is altered to have a *)
(* STORED column (which AddIsAccepted shows to fail).                      *)
ScriptRuns ==
    LET edited == {o \in Objects : from.objects[o] # want.objects[o]}
    IN  /\ IndexesKept
        /\ edited = {} \/ (Cardinality(edited) = 1 /\ Removed(from, want) = {})
        /\ ~StoredOnRows
        => outcome # "failed"

(* preserve.go: a trigger or view that stays as it is survives the body;   *)
(* one that names a rebuilt table, before or after, ends up as schema.sql  *)
(* has it.                                                                 *)
ObjectsFollow ==
    outcome = "done" => \A o \in Objects :
        \/ db.objects[o] = want.objects[o]
        \/ /\ from.objects[o] # want.objects[o]
           /\ \A s \in {from, want} : s.objects[o] # NoObject =>
                 s.objects[o].names \cap Rebuilt(from, want) = {}

(* verifyCandidate finds no difference when a body has run: the routing to *)
(* ADD COLUMN, CREATE INDEX and rebuilds misses no change of a table.      *)
SchemaReached ==
    outcome = "done" => \A t \in Tables :
        IF want.tables[t] = NoTable THEN db.tables[t] = NoTable
        ELSE db.tables[t] # NoTable /\ db.tables[t].def = want.tables[t]

(* generator.go: a row keeps what it holds in every column that is there   *)
(* before and after, and its rowid, which other tables may store, if both  *)
(* tables have rowids, no old column becomes the key, and one of the names *)
(* of the rowid is free to copy it.                                        *)
RowsSurvive ==
    outcome = "done" => \A t \in Present(from) \cap Present(want) :
        LET b == from.tables[t]
            a == want.tables[t]
            same == {c \in Columns : b.columns[c].is # "none" /\ a.columns[c].is = "plain"}
            sameId == \/ a.key # 0 /\ a.key = b.key
                      \/ /\ b.rowid /\ a.rowid
                         /\ a.key = 0 \/ b.columns[a.key].is = "none"
                         /\ \E n \in Spellings : \A c \in {n} :
                               b.columns[c].is = "none" /\ a.columns[c].is = "none"
        IN  /\ Cardinality(db.tables[t].rows) = Cardinality(rows[t])
            /\ \A r \in rows[t] : \E q \in db.tables[t].rows :
                  /\ \A c \in same : q.values[c] = r.values[c]
                  /\ sameId => q.id = r.id

(* generator.go: AUTOINCREMENT never gives out a rowid again, also when    *)
(* the rows with the highest ones, or all rows, were deleted.              *)
MarkSurvives ==
    outcome = "done" => \A t \in Present(from) \cap Present(want) :
        from.tables[t].auto /\ want.tables[t].auto => db.tables[t].seq >= Mark

(* spec: without --allow-destructive nothing is lost: a value in a column  *)
(* that holds data is there after any body generate agrees to.             *)
NothingLostUnasked ==
    outcome = "done" /\ ~allow => \A t \in Present(from) :
        /\ db.tables[t] # NoTable
        /\ \A r \in rows[t], c \in Columns : from.tables[t].columns[c].is = "plain" =>
              \E q \in db.tables[t].rows : q.values[c] = r.values[c]

(* generator.go: the copy of a table runs after those of the tables its    *)
(* foreign keys refer to, but for a cycle.                                 *)
Reaches(t, u, s) ==
    \A far \in SUBSET Tables :
        /\ t \in far
        /\ \A x \in far \cap Rebuilt(from, s) :
              ParentsOf(s.tables[x]) \cap Rebuilt(from, s) \subseteq far
        => u \in far

ParentsFirst ==
    \A s, u \in todo :
        /\ s.op = "copy" /\ u.op = "copy" /\ Before(s, u)
        /\ u.at \in ParentsOf(want.tables[s.at])
        => Reaches(u.at, s.at, want)

(* spec: safe changes are always auto-generated.                           *)
SafeIsGenerated ==
    ~Destructive(from, want) => outcome # "failed"

(* generate.go: an ADD COLUMN that a table with rows would reject routes   *)
(* the table to a rebuild instead.                                         *)
AddIsAccepted ==
    (pc = "run" /\ todo # {} /\ Due.op = "addColumns") => ~AddRefused(at)

(* generator.go: every trigger or view that references a rebuilt table, or *)
(* another object already being dropped, transitively, is dropped before   *)
(* any rebuilt table's own CREATE.                                         *)
DropsAreClosed ==
    (todo # {} /\ Due.op = "createNew") =>
        \A o \in Objects : db.objects[o] # NoObject =>
            \A r \in db.objects[o].names :
                /\ r \notin Rebuilt(from, want)
                /\ r \in Views /\ from.objects[r] # NoObject => db.objects[r] # NoObject
=============================================================================
