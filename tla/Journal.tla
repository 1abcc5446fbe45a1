------------------------------ MODULE Journal ------------------------------
(***************************************************************************)
(* The migrations directory and the commands that work on it: generate     *)
(* (generate.go) reads schema.sql and the journal and appends a migration  *)
(* file, check (check.go) verifies the journal, apply takes it to a        *)
(* database.  Nothing locks the directory: generate runs race, files are   *)
(* created empty and filled afterwards, clocks step back, and developers   *)
(* edit schema.sql and, against the advice, migration files.               *)
(*                                                                         *)
(* A schema gives each table a shape.  The body of a migration is a set of *)
(* steps, one per table it creates, drops, renames or changes: how a step  *)
(* is spelled in SQL, and what data it moves, is left out.                 *)
(***************************************************************************)
EXTENDS Integers, FiniteSets, Folds

CONSTANTS
    Gens,        \* processes that run generate
    Tables,
    Shapes,      \* definitions a table may have
    NoTable,     \* the table does not exist
    Invalid,     \* a statement about the table has failed
    MaxVersion,  \* bound: the last second of the clock
    Slugs,       \* slugs of file names, as numbers in their sorting order
    NoFile,
    NoSum,       \* the file has no checksum header
    MaxEdits,    \* bound: edits of schema.sql
    MaxTampers,  \* bound: edits of migration files
    ClockSteps,  \* the wall clock may be set back
    Faults       \* writes may fail, processes die

ASSUME ShapesAssumption ==
    NoTable \notin Shapes /\ Invalid \notin Shapes \cup {NoTable}
ASSUME NumbersAssumption ==
    /\ MaxVersion \in Nat \ {0} /\ {MaxEdits, MaxTampers} \subseteq Nat
    /\ Slugs \subseteq Nat /\ Slugs # {}
ASSUME SwitchesAssumption == {ClockSteps, Faults} \subseteq BOOLEAN

Versions == 1 .. MaxVersion
Names == Versions \X Slugs
Schemas == [Tables -> Shapes \cup {NoTable}]

(* A step takes a table from one shape to another, and a body has one step *)
(* at most for a table.                                                    *)
Steps == {step \in [table : Tables, from : Shapes \cup {NoTable},
                    to : Shapes \cup {NoTable}] : step.from # step.to}

(* A migration file: its body, and the body its checksum header is of.     *)
Files == [sum : (SUBSET Steps) \cup {NoSum}, body : SUBSET Steps]

ASSUME NoFileAssumption == NoFile \notin Files

Intact(file) == file.sum = file.body

-----------------------------------------------------------------------------
(***************************************************************************)
(* Replaying a journal: a step succeeds on a table of the shape it was     *)
(* generated for; DROP TABLE succeeds on any.                              *)
(***************************************************************************)
Succeeds(step, shape) ==
    IF step.to = NoTable THEN shape \in Shapes ELSE shape = step.from

Effect(body, schema) ==
    [t \in Tables |->
        LET steps == {step \in body : step.table = t}
        IN  IF steps = {} THEN schema[t]
            ELSE IF \A step \in steps : Succeeds(step, schema[t])
                 THEN (CHOOSE step \in steps : TRUE).to
                 ELSE Invalid]

Broken(schema) == schema \notin Schemas

Empty == [t \in Tables |-> NoTable]

Before(m, n) == m[1] < n[1] \/ (m[1] = n[1] /\ m[2] < n[2])

Latest(names) == CHOOSE n \in names : \A m \in names \ {n} : Before(m, n)

(* The bodies of the files with these names run in name order: the latest  *)
(* runs on what the others have made.                                      *)
RunAll(dir, names, schema) ==
    MapThenFoldSet(Effect, schema, LAMBDA n : dir[n].body, Latest, names)

Present(dir) == {n \in Names : dir[n] # NoFile}

(* readJournal and schemadiff.Parse: every file, whatever its checksum.    *)
Replay(dir) == RunAll(dir, Present(dir), Empty)

(* Mutant: the diff lists tables that are equal on both sides.             *)
ChangesOfAll(current, desired) ==
    {[table |-> t, from |-> current[t], to |-> desired[t]] : t \in Tables}

(* Diff and buildMigrationBody: a confirmed rename is the drop and the     *)
(* creation it stands for.  The body passes verifyCandidate: after the     *)
(* journal it gives the desired schema.                                    *)
Changes(current, desired) ==
    {[table |-> t, from |-> current[t], to |-> desired[t]] :
        t \in {u \in Tables : current[u] # desired[u]}}

(* LoadDir refuses two files of one version.                               *)
Collides(dir) ==
    \E m, n \in Present(dir) : m # n /\ m[1] = n[1]

(* RunCheck: every header matches its body, and the replay gives the       *)
(* schema.                                                                 *)
Checks(dir, schema) ==
    /\ ~Collides(dir)
    /\ \A n \in Present(dir) : Intact(dir[n])
    /\ Replay(dir) = schema

-----------------------------------------------------------------------------
VARIABLES
    schema,    \* schema.sql
    dir,       \* the migrations directory
    edits,     \* how often a developer has edited schema.sql
    tampers,   \* and a migration file
    clock,     \* the wall clock, in seconds
    pc,        \* where each generate is
    want,      \* the schema it read
    body,      \* the body it made
    name,      \* the name it picked
    result,    \* how its last run ended
    rows,      \* the database: the file each version was applied from
    deployed   \* the database: its schema

vars == <<schema, dir, edits, tampers, clock, pc, want, body, name, result, rows,
          deployed>>
database == <<rows, deployed>>
developer == <<schema, edits, tampers>>

Stages == {"idle", "read", "write", "create", "fill"}
Results == {"none", "written", "unchanged", "refused", "failed", "died"}

(* generate returns.                                                       *)
Return(g, r) ==
    /\ pc' = [pc EXCEPT ![g] = "idle"]
    /\ result' = [result EXCEPT ![g] = r]

Goto(g, stage) ==
    /\ pc' = [pc EXCEPT ![g] = stage]
    /\ UNCHANGED result

ReadSchema(g) ==
    /\ pc[g] = "idle"
    /\ pc' = [pc EXCEPT ![g] = "read"]
    /\ result' = [result EXCEPT ![g] = "none"]
    /\ want' = [want EXCEPT ![g] = schema]
    /\ UNCHANGED <<developer, dir, clock, body, name, database>>

(* Mutant: the journal is read without the files whose checksum is wrong.  *)
ReadIntact(g) ==
    LET current == RunAll(dir, {n \in Present(dir) : Intact(dir[n])}, Empty)
    IN  /\ pc[g] = "read"
        /\ \/ Broken(current) /\ Return(g, "refused") /\ UNCHANGED body
           \/ current = want[g] /\ Return(g, "unchanged") /\ UNCHANGED body
           \/ /\ ~Broken(current)
              /\ current # want[g]
              /\ body' = [body EXCEPT ![g] = Changes(current, want[g])]
              /\ Goto(g, "write")
        /\ UNCHANGED <<developer, dir, clock, want, name, database>>

(* The journal is replayed: an error, no changes, or a body to write.      *)
(* generate reads every *.sql file; all files here have names that LoadDir *)
(* takes too.                                                              *)
ReadJournal(g) ==
    LET current == Replay(dir)
    IN  /\ pc[g] = "read"
        /\ \/ Broken(current) /\ Return(g, "refused") /\ UNCHANGED body
           \/ current = want[g] /\ Return(g, "unchanged") /\ UNCHANGED body
           \/ /\ ~Broken(current)
              /\ current # want[g]
              /\ body' = [body EXCEPT ![g] = Changes(current, want[g])]
              /\ Goto(g, "write")
        /\ UNCHANGED <<developer, dir, clock, want, name, database>>

(* A destructive change without its flag, a rename without an answer, a    *)
(* rebuild that is not supported.                                          *)
Refuse(g) ==
    /\ pc[g] = "write"
    /\ Return(g, "refused")
    /\ UNCHANGED <<developer, dir, clock, want, body, name, database>>

Used(v) == \E n \in Present(dir) : n[1] = v

(* Mutant: a second that is taken is followed by the one before it.        *)
PrecedingTimestamp(v) ==
    /\ v <= clock
    /\ ~Used(v)
    /\ \A w \in v + 1 .. clock : Used(w)

(* nextTimestamp: the first second from now on that no file has taken.     *)
NextTimestamp(v) ==
    /\ v >= clock
    /\ ~Used(v)
    /\ \A w \in clock .. v - 1 : Used(w)

PickName(g) ==
    /\ pc[g] = "write"
    /\ \E v \in Versions, slug \in Slugs :
          /\ NextTimestamp(v)
          /\ name' = [name EXCEPT ![g] = <<v, slug>>]
    /\ Goto(g, "create")
    /\ UNCHANGED <<developer, dir, clock, want, body, database>>

(* os.WriteFile first creates an empty file, or empties the one there.     *)
Create(g) ==
    /\ pc[g] = "create"
    /\ dir' = [dir EXCEPT ![name[g]] = [sum |-> NoSum, body |-> {}]]
    /\ Goto(g, "fill")
    /\ UNCHANGED <<developer, clock, want, body, name, database>>

Fill(g) ==
    /\ pc[g] = "fill"
    /\ dir' = [dir EXCEPT ![name[g]] = [sum |-> body[g], body |-> body[g]]]
    /\ Return(g, "written")
    /\ UNCHANGED <<developer, clock, want, body, name, database>>

(* The disk is full: the header and some of the steps are there.  A cut    *)
(* inside the header or inside a statement is left out.                    *)
FillFails(g) ==
    /\ Faults
    /\ pc[g] = "fill"
    /\ \E part \in (SUBSET body[g]) \ {body[g]} :
          dir' = [dir EXCEPT ![name[g]] = [sum |-> body[g], body |-> part]]
    /\ Return(g, "failed")
    /\ UNCHANGED <<developer, clock, want, body, name, database>>

Fail(g) ==
    /\ Faults
    /\ pc[g] # "idle"
    /\ \E r \in {"failed", "died"} : Return(g, r)
    /\ UNCHANGED <<developer, dir, clock, want, body, name, database>>

-----------------------------------------------------------------------------
(* apply, which module Ledger describes: the whole batch of pending files, *)
(* in version order, or nothing.                                           *)
Recorded(n) == rows[n[1]] # NoFile

(* Mutant: a recorded checksum is not compared with the file's.            *)
AgreesByVersion == \A v \in Versions : rows[v] # NoFile => Used(v)

Agrees ==
    /\ \A n \in Present(dir) : Recorded(n) => rows[n[1]] = dir[n]
    /\ \A v \in Versions : rows[v] # NoFile => Used(v)
Pending == {n \in Present(dir) : ~Recorded(n)}
Upgraded == RunAll(dir, Pending, deployed)

(* Load and commit are one step: what happens between is module Runner's.  *)
Apply ==
    /\ Pending # {}
    /\ ~Collides(dir)
    /\ Agrees
    /\ ~Broken(Upgraded)
    /\ deployed' = Upgraded
    /\ rows' = [v \in Versions |->
                  IF Used(v) THEN dir[CHOOSE n \in Present(dir) : n[1] = v]
                  ELSE NoFile]
    /\ UNCHANGED <<developer, dir, clock, pc, want, body, name, result>>

(* status: what becomes of each file, and the rows whose file is gone.     *)
(* Mutant: a file is known by its version.                                 *)
StatusByVersion(n) == IF Recorded(n) THEN "applied" ELSE "pending"

Status(n) ==
    CASE ~Recorded(n) -> "pending"
      [] Recorded(n) /\ rows[n[1]] # dir[n] -> "mismatch"
      [] OTHER -> "applied"

Orphans == {v \in Versions : rows[v] # NoFile /\ ~Used(v)}

(* verify: the whole journal is replayed and compared, pending files too.  *)
Verify ==
    CASE Collides(dir) \/ Broken(Replay(dir)) -> "error"
      [] ~Collides(dir) /\ Replay(dir) = deployed -> "ok"
      [] OTHER -> "drift"

(* Developers.                                                             *)
EditSchema ==
    /\ edits < MaxEdits
    /\ schema' \in Schemas
    /\ schema' # schema
    /\ edits' = edits + 1
    /\ UNCHANGED <<dir, tampers, clock, pc, want, body, name, result, database>>

EditFile ==
    /\ tampers < MaxTampers
    /\ \E n \in Present(dir), step \in Steps :
          dir' = [dir EXCEPT ![n].body = {step}]
    /\ tampers' = tampers + 1
    /\ UNCHANGED <<schema, edits, clock, pc, want, body, name, result, database>>

Tick ==
    /\ \E t \in Versions :
          /\ t = clock + 1 \/ (ClockSteps /\ t < clock)
          /\ clock' = t
    /\ UNCHANGED <<developer, dir, pc, want, body, name, result, database>>

Init ==
    /\ schema \in Schemas
    /\ dir = [n \in Names |-> NoFile]
    /\ edits = 0 /\ tampers = 0
    /\ clock = 1
    /\ pc = [g \in Gens |-> "idle"]
    /\ want = [g \in Gens |-> Empty]
    /\ body = [g \in Gens |-> {}]
    /\ name = [g \in Gens |-> CHOOSE n \in Names : TRUE]
    /\ result = [g \in Gens |-> "none"]
    /\ rows = [v \in Versions |-> NoFile]
    /\ deployed = Empty

Generate(g) ==
    \/ ReadSchema(g) \/ ReadJournal(g) \/ Refuse(g) \/ PickName(g)
    \/ Create(g) \/ Fill(g) \/ FillFails(g) \/ Fail(g)

Next ==
    \/ \E g \in Gens : Generate(g)
    \/ Apply
    \/ EditSchema \/ EditFile \/ Tick

Spec == Init /\ [][Next]_vars

-----------------------------------------------------------------------------
TypeOK ==
    /\ schema \in Schemas
    /\ dir \in [Names -> Files \cup {NoFile}]
    /\ edits \in 0 .. MaxEdits
    /\ tampers \in 0 .. MaxTampers
    /\ clock \in Nat
    /\ pc \in [Gens -> Stages]
    /\ want \in [Gens -> Schemas]
    /\ body \in [Gens -> SUBSET Steps]
    /\ name \in [Gens -> Names]
    /\ result \in [Gens -> Results]
    /\ rows \in [Versions -> Files \cup {NoFile}]
    /\ deployed \in [Tables -> Shapes \cup {NoTable}]

(* One generate at a time, by a clock that never steps back, appends: a    *)
(* new file's version is greater than every version there, although        *)
(* nextTimestamp looks only at the seconds from now on.                    *)
NewestLast ==
    [][\A n \in Present(dir)' \ Present(dir) :
          \A m \in Present(dir) : m[1] < n[1]]_vars

(* What verifyCandidate checked before the file was written is true of the *)
(* directory afterwards: replaying it gives the schema generate read, also *)
(* with what a failed or killed run left behind, if no file was edited.    *)
GeneratedReproduces ==
    \A g \in Gens :
        result[g] \in {"written", "unchanged"} /\ tampers = 0 =>
            Replay(dir) = want[g]

(* A database that only apply has changed has no drift of its own: its     *)
(* schema is the replay, in version order, of the files it was applied     *)
(* from, however the batches were cut.                                     *)
NoDrift ==
    LET names == Versions \X {0}
        applied == {n \in names : rows[n[1]] # NoFile}
    IN  deployed = RunAll([n \in names |-> rows[n[1]]], applied, Empty)

(* A journal that passes check can be applied to a database that is        *)
(* anywhere behind it, and takes it to schema.sql.                         *)
CheckedApplies ==
    Checks(dir, schema) /\ Agrees => Upgraded = schema

(* A database of which status shows nothing amiss, every file applied as   *)
(* it is and no row without a file, is one in which verify finds no drift: *)
(* the batches that built it, each in version order, come to the same as   *)
(* one replay of the directory.                                            *)
CleanStatusVerifies ==
    /\ ~Collides(dir)
    /\ \A n \in Present(dir) : Status(n) = "applied"
    /\ Orphans = {}
    => Verify = "ok"
=============================================================================
