----------------------------- MODULE Migrations -----------------------------
(***************************************************************************)
(* The data Runner works on: migration files, the bookkeeping rows, and a  *)
(* database reduced to what the tool can tell apart.                       *)
(*   table    the bookkeeping table schema_migrations exists;              *)
(*   rows     the bookkeeping rows: the body each version was applied with *)
(*            (a body stands for its checksum: equal iff the files are);   *)
(*   log      the bodies that ran against the database, oldest first: the  *)
(*            schema and the data are a function of this sequence;         *)
(*   orphans  some row violates a foreign key;                             *)
(*   app      how many transactions the application has committed.         *)
(***************************************************************************)
EXTENDS Integers, Sequences

CONSTANTS
    Versions,   \* migration versions: the 14-digit timestamps, as numbers
    Bodies,     \* file contents of migrations
    NoBody,     \* no file, or no row, for a version
    NulBodies,  \* bodies that contain a NUL byte: SQLite stops executing there
    Orphaning,  \* bodies that leave a row violating a foreign key
    Healing,    \* bodies that leave no such row
    MaxApp      \* bound: transactions of the application

ASSUME VersionsAssumption == Versions \subseteq Nat
ASSUME BodiesAssumption ==
    /\ NoBody \notin Bodies
    /\ NulBodies \subseteq Bodies
    /\ Orphaning \subseteq Bodies
    /\ Healing \subseteq Bodies
    /\ Orphaning \cap Healing = {}
ASSUME MaxAppAssumption == MaxApp \in Nat

(* A migrations directory as LoadDir gives it, or the rows of              *)
(* schema_migrations.  Its refusals (two files of one version, which       *)
(* Collides of module Journal has; a file that cannot be read) come before *)
(* Apply; names that are no migration's are not there.                     *)
Journals == [Versions -> Bodies \cup {NoBody}]

Present(journal) == {v \in Versions : journal[v] # NoBody}

(* One execution of a migration; only a body with a NUL byte is cut short. *)
Runs == [version : Versions, body : Bodies, whole : BOOLEAN]

Contents ==
    [table : BOOLEAN, rows : Journals, log : Seq(Runs),
     orphans : BOOLEAN, app : 0 .. MaxApp]

Fresh == [table |-> FALSE, rows |-> [v \in Versions |-> NoBody],
          log |-> << >>, orphans |-> FALSE, app |-> 0]

(* Mutants: changed files are not noticed; a version without a file is     *)
(* pending too; what ran already is pending again.                         *)
MismatchedUnnoticed(files, rows) == {}
PendingWithoutFile(files, rows) == Versions \ Present(rows)
PendingAgain(files, rows) == Present(files)

(***************************************************************************)
(* The two ways a journal can disagree with the rows, ChecksumMismatchError *)
(* and MissingMigrationError of runner.go, and what is left to apply.      *)
(***************************************************************************)
Mismatched(files, rows) ==
    {v \in Present(rows) \cap Present(files) : files[v] # rows[v]}
Missing(files, rows) == Present(rows) \ Present(files)
Pending(files, rows) == Present(files) \ Present(rows)

(* Mutant: the files are not sorted.                                       *)
AnyOf(v, S) == v \in S

(* Version v is the first of S in version order.                           *)
First(v, S) == v \in S /\ \A w \in S : v <= w

(* The database after body has run against it as version v.                *)
Ran(d, v, body) ==
    [d EXCEPT !.log = Append(@, [version |-> v, body |-> body,
                                 whole |-> body \notin NulBodies]),
              !.orphans = (@ \/ body \in Orphaning) /\ body \notin Healing]

(* The database with the bookkeeping row of version v inserted.            *)
Recorded(d, v, body) == [d EXCEPT !.rows[v] = body]

(* later continues earlier with one run of each pending file, in version   *)
(* order.                                                                  *)
Continues(earlier, later, files, pending) ==
    LET fresh == Len(earlier) + 1 .. Len(later)
    IN  /\ Len(later) >= Len(earlier)
        /\ \A i \in 1 .. Len(earlier) : later[i] = earlier[i]
        /\ \A i, j \in fresh : i < j => later[i].version < later[j].version
        /\ {later[i].version : i \in fresh} = pending
        /\ \A i \in fresh : later[i].body = files[later[i].version]
=============================================================================
